---- MODULE Spec2Model ----
(***************************************************************************)
(* CalendarApp: the recurrence engine (src/utils/rruleUtils.ts, on top of  *)
(* the rrule 2.8.1 library) and the lunar/solar conversion engine          *)
(* (src/services/LunarService.ts, on top of lunar-javascript 1.7.7).       *)
(*                                                                         *)
(* Time.  A calendar day is an integer, day 0 = 2023-01-01.  An instant    *)
(* (a JavaScript Date) is an integer number of sub-second units:           *)
(*   instant = (day * TodSlots + tod) * MsSlots + ms                       *)
(* where tod stands for the UTC hour:minute:second of the day and ms for   *)
(* the millisecond part.  The local calendar day of an instant is the day  *)
(* of the instant shifted by the zone offset tz (in tod slots).            *)
(***************************************************************************)
EXTENDS Integers, Sequences, FiniteSets, TLC

VARIABLES now,      \* the wall clock (an instant), read by new Date()
          tz,       \* the device's zone offset, in tod slots east of UTC
          call,     \* the last recurrence-engine call: operation, arguments, result
          occ,      \* the last generateOccurrences call, kept for containment queries
          conv,     \* the last solarToLunar call: argument and returned LunarDate
          back,     \* the last lunarToSolar call: arguments and returned Date
          cache,    \* LunarService.cache: date key -> FullDateInfo
          computed, \* the number of lunar / solar-term / festival computations made
          ret,      \* the last two getFullDateInfo calls since the cache was cleared
          requested, \* the date keys requested since the cache was cleared
          thr,      \* two callers inside getFullDateInfo: position, argument, result
          ask,      \* the last festival / month-length query: arguments and result
          picker,   \* LunarDatePicker: the selected year, month, day and leap flag
          store,    \* useEventStore and the events table: events, isLoading, rows, calls in flight
          pre       \* MonthView with useMonthPreload: weekStart, month shown, cache, callbacks pending

uiVars == <<picker, store, pre>>

vars == <<now, tz, call, occ, conv, back, cache, computed, ret, requested, thr, ask, uiVars>>

svcVars == <<cache, computed, ret, requested, thr, ask>>

cacheVars == <<cache, computed, ret, requested>>

rruleVars == <<now, tz, call, occ>>
lunarVars == <<conv, back>>

----------------------------------------------------------------------------
(* Bounds of the model *)

MaxYear == 2032      \* last Gregorian year of the modelled calendar
TodSlots == 3        \* time-of-day slots per day
MsSlots == 2         \* sub-second slots per time-of-day slot
MaxCap == 3          \* largest explicit maxOccurrences argument
MaxCount == 3        \* largest COUNT / count value
IterBlock == 20      \* rounds of the expansion loop evaluated per block
MaxComputed == 4     \* largest number of date-info computations followed

----------------------------------------------------------------------------
(* Gregorian calendar arithmetic (JavaScript Date / rrule dateutil) *)

Min(a, b) == IF a <= b THEN a ELSE b

Years == 2023..(MaxYear + 1)

IsLeap(y) == (y % 4 = 0 /\ y % 100 # 0) \/ y % 400 = 0

YearLen(y) == IF IsLeap(y) THEN 366 ELSE 365

DaysInMonth(y, m) ==
    IF m = 2 THEN (IF IsLeap(y) THEN 29 ELSE 28)
    ELSE IF m \in {4, 6, 9, 11} THEN 30 ELSE 31

RECURSIVE DaysBeforeYear(_)
DaysBeforeYear(y) == IF y <= 2023 THEN 0 ELSE DaysBeforeYear(y - 1) + YearLen(y - 1)

RECURSIVE DaysBeforeMonth(_, _)
DaysBeforeMonth(y, m) == IF m <= 1 THEN 0 ELSE DaysBeforeMonth(y, m - 1) + DaysInMonth(y, m - 1)

\* day number of a calendar date
ToOrdinal(y, m, d) == DaysBeforeYear(y) + DaysBeforeMonth(y, m) + (d - 1)

MaxDay == DaysBeforeYear(MaxYear + 1) - 1

YearOf(day) == CHOOSE y \in Years : DaysBeforeYear(y) <= day /\ day < DaysBeforeYear(y + 1)

MonthOf(day) ==
    LET y == YearOf(day)
        r == day - DaysBeforeYear(y)
    IN  CHOOSE m \in 1..12 : DaysBeforeMonth(y, m) <= r /\ r < DaysBeforeMonth(y, m) + DaysInMonth(y, m)

MDayOf(day) ==
    LET y == YearOf(day)
    IN  day - DaysBeforeYear(y) - DaysBeforeMonth(y, MonthOf(day)) + 1

\* the calendar fields of every day, computed once
Ymd == [day \in 0..(MaxDay + 7) |-> [y |-> YearOf(day), m |-> MonthOf(day), d |-> MDayOf(day)]]

\* rrule's weekday numbering: 0 = Monday .. 6 = Sunday (2023-01-01 was a Sunday)
WeekdayOf(day) == (day + 6) % 7

----------------------------------------------------------------------------
(* Instants *)

Instant(day, tod, ms) == (day * TodSlots + tod) * MsSlots + ms

UtcDay(t) == t \div (TodSlots * MsSlots)
UtcTod(t) == (t \div MsSlots) % TodSlots
MsOf(t) == t % MsSlots

\* Date.prototype.setHours(0, 0, 0, 0) followed by getTime(), and the fields
\* getFullYear/getMonth/getDate: the local calendar day of an instant
LocalDay(t, zone) == (t + zone * MsSlots) \div (TodSlots * MsSlots)

----------------------------------------------------------------------------
(* Rule text.  An RRULE string is a sequence of KEY=VALUE parts separated   *)
(* by ";", with an optional "RRULE:" prefix.  A part is [key, val]: val is *)
(* the comma-separated value list, empty when the part has no "=VALUE".    *)
(* FREQ and BYDAY values are tokens; INTERVAL, COUNT and BYMONTHDAY values *)
(* are numbers; an UNTIL value is the printed UTC date <<day, tod>> (the   *)
(* format YYYYMMDDTHHMMSSZ has no milliseconds).                           *)

Part(key, val) == [key |-> key, val |-> val]

Text(prefix, parts) == [prefix |-> prefix, parts |-> parts]

\* rrule Frequency enum: the value of a FREQ token, -1 (undefined) for any other token
Frequency(tok) ==
    CASE tok = "YEARLY" -> 0
      [] tok = "MONTHLY" -> 1
      [] tok = "WEEKLY" -> 2
      [] tok = "DAILY" -> 3
      [] tok = "HOURLY" -> 4
      [] tok = "MINUTELY" -> 5
      [] tok = "SECONDLY" -> 6
      [] OTHER -> -1

\* RRule.FREQUENCIES: the token a frequency is printed as
FrequencyName(freq) ==
    CASE freq = 0 -> "YEARLY"
      [] freq = 1 -> "MONTHLY"
      [] freq = 2 -> "WEEKLY"
      [] freq = 3 -> "DAILY"
      [] freq = 4 -> "HOURLY"
      [] freq = 5 -> "MINUTELY"
      [] freq = 6 -> "SECONDLY"

\* FREQUENCY_MAP: RepeatRule frequency -> library frequency (undefined = -1)
FREQUENCY_MAP(name) ==
    CASE name = "DAILY" -> 3
      [] name = "WEEKLY" -> 2
      [] name = "MONTHLY" -> 1
      [] name = "YEARLY" -> 0
      [] OTHER -> -1

\* FREQUENCY_REVERSE_MAP: library frequency -> RepeatRule frequency
FREQUENCY_REVERSE_MAP(freq) == FrequencyName(freq)

WeekdayTokens == <<"MO", "TU", "WE", "TH", "FR", "SA", "SU">>

\* rrule Days / Weekday.fromStr: weekday number of a BYDAY token, -1 when unknown
WeekdayNumber(tok) ==
    IF \E i \in 1..7 : WeekdayTokens[i] = tok
    THEN (CHOOSE i \in 1..7 : WeekdayTokens[i] = tok) - 1
    ELSE -1

\* Weekday.toString: BYDAY token of a weekday number
WeekdayToken(n) == WeekdayTokens[n + 1]

\* an array option: null, or an array of numbers
NullArr == [set |-> FALSE, v |-> <<>>]
Arr(v) == [set |-> TRUE, v |-> v]

\* rrule DEFAULT_OPTIONS with freq left undefined: -1 stands for null/undefined
NoOptions ==
    [hasFreq |-> FALSE, freq |-> -1, dtstart |-> -1, interval |-> 1, count |-> -1, until |-> -1,
     bymonth |-> NullArr, bymonthday |-> NullArr, byweekday |-> NullArr, bytime |-> NullArr]

\* dateutil.timeToUntilString: an instant printed as UTC date and time, to the second
UntilString(t) == <<UtcDay(t), UtcTod(t)>>

\* dateutil.untilStringToDate
UntilDate(val) == Instant(val[1], val[2], 0)

Contains(seq, x) == \E i \in DOMAIN seq : seq[i] = x

\* the BYDAY tokens as weekday numbers
WeekdayNumbers(val) == [i \in DOMAIN val |-> WeekdayNumber(val[i])]

\* parsestring.ts parseRrule, one attribute: the options with the attribute
\* set, or a throw (unknown property, missing value, unknown weekday)
ParseAttr(o, part) ==
    IF part.key \notin {"FREQ", "INTERVAL", "COUNT", "UNTIL", "BYDAY", "BYMONTHDAY"}
    THEN [threw |-> TRUE, o |-> o]
    ELSE IF part.val = <<>>
    THEN [threw |-> TRUE, o |-> o]
    ELSE CASE part.key = "FREQ" ->
                [threw |-> FALSE, o |-> [o EXCEPT !.hasFreq = TRUE, !.freq = Frequency(part.val[1])]]
           [] part.key = "INTERVAL" ->
                [threw |-> FALSE, o |-> [o EXCEPT !.interval = part.val[1]]]
           [] part.key = "COUNT" ->
                [threw |-> FALSE, o |-> [o EXCEPT !.count = part.val[1]]]
           [] part.key = "UNTIL" ->
                [threw |-> FALSE, o |-> [o EXCEPT !.until = UntilDate(part.val)]]
           [] part.key = "BYDAY" ->
                [threw |-> Contains(WeekdayNumbers(part.val), -1),
                 o |-> [o EXCEPT !.byweekday = Arr(WeekdayNumbers(part.val))]]
           [] part.key = "BYMONTHDAY" ->
                [threw |-> FALSE, o |-> [o EXCEPT !.bymonthday = Arr(part.val)]]

RECURSIVE ParseAttrs(_, _, _)
\* parsestring.ts parseRrule: the attributes after attribute i, unless it threw
ParseRest(r, parts, i) == IF r.threw THEN r ELSE ParseAttrs(r.o, parts, i + 1)

\* parsestring.ts parseRrule: the attributes in order, later ones overriding
ParseAttrs(o, parts, i) ==
    IF i > Len(parts) THEN [threw |-> FALSE, o |-> o]
    ELSE ParseRest(ParseAttr(o, parts[i]), parts, i)

\* parsestring.ts parseString: an empty rule line has the single attribute ""
ParseString(text) ==
    IF text.parts = <<>> THEN [threw |-> TRUE, o |-> NoOptions]
    ELSE ParseAttrs(NoOptions, text.parts, 1)

\* parseoptions.ts parseOptions: the defaults a rule is completed with.  The
\* anchor is dtstart, or the clock when the options carry none.
ParseOptions(opts, clock) ==
    LET freq == IF opts.hasFreq THEN opts.freq ELSE 0
        dtstart == IF opts.dtstart = -1 THEN clock - MsOf(clock) ELSE opts.dtstart
        noBy == ~opts.bymonthday.set /\ ~opts.byweekday.set
        bymonth == IF noBy /\ freq = 0 /\ ~opts.bymonth.set
                   THEN Arr(<<Ymd[UtcDay(dtstart)].m>>) ELSE opts.bymonth
        bymonthday == IF noBy /\ freq \in {0, 1}
                      THEN Arr(<<Ymd[UtcDay(dtstart)].d>>)
                      ELSE IF opts.bymonthday.set
                           THEN Arr(SelectSeq(opts.bymonthday.v, LAMBDA v : v > 0))
                           ELSE Arr(<<>>)
        byweekday == IF noBy /\ freq = 2
                     THEN Arr(<<WeekdayOf(UtcDay(dtstart))>>)
                     ELSE IF opts.byweekday.set /\ opts.byweekday.v # <<>>
                          THEN opts.byweekday ELSE NullArr
        bytime == IF opts.bytime.set THEN opts.bytime
                  ELSE IF freq < 4 THEN Arr(<<UtcTod(dtstart)>>) ELSE NullArr
    IN  IF freq \notin 0..6
        THEN [threw |-> TRUE, o |-> opts]
        ELSE [threw |-> FALSE,
              o |-> [hasFreq |-> TRUE, freq |-> freq, dtstart |-> dtstart,
                     interval |-> opts.interval, count |-> opts.count, until |-> opts.until,
                     bymonth |-> bymonth, bymonthday |-> bymonthday,
                     byweekday |-> byweekday, bytime |-> bytime]]

\* new RRule(options) on the outcome p of a step that may have thrown
NewRRule(p, clock) == IF p.threw THEN p ELSE ParseOptions(p.o, clock)

\* RRule.fromString: parse the text, then construct the rule at the clock
FromString(text, clock) == NewRRule(ParseString(text), clock)

----------------------------------------------------------------------------
(* rrule iter(): the expansion loop.  The counter date walks the periods   *)
(* of the rule; in each period the days of the period that pass the by-    *)
(* filters are combined with the time set and offered to the collector.    *)

\* the counter date at the anchor
CounterOn(ymd, day) == [y |-> ymd.y, m |-> ymd.m, day |-> day]

CounterAt(day) == CounterOn(Ymd[day], day)

\* the days of the counter's period in descending order
DaySetDescending(o, c) ==
    LET first == CASE o.freq = 0 -> ToOrdinal(c.y, 1, 1)
                   [] o.freq = 1 -> ToOrdinal(c.y, c.m, 1)
                   [] OTHER -> c.day
        n == CASE o.freq = 0 -> YearLen(c.y)
               [] o.freq = 1 -> DaysInMonth(c.y, c.m)
               [] o.freq = 2 -> 7 - WeekdayOf(c.day)
               [] OTHER -> 1
    IN  [i \in 1..n |-> first + n - i]

\* iterinfo getdayset: the days of the counter's period, in index order
DaySet(o, c) ==
    LET first == CASE o.freq = 0 -> ToOrdinal(c.y, 1, 1)
                   [] o.freq = 1 -> ToOrdinal(c.y, c.m, 1)
                   [] OTHER -> c.day
        n == CASE o.freq = 0 -> YearLen(c.y)
               [] o.freq = 1 -> DaysInMonth(c.y, c.m)
               [] o.freq = 2 -> 7 - WeekdayOf(c.day)
               [] OTHER -> 1
    IN  [i \in 1..n |-> first + i - 1]

\* iter isFiltered: a day of the period rejected by BYMONTH, BYDAY or BYMONTHDAY
IsFilteredOn(o, ymd, day) ==
    \/ o.bymonth.v # <<>> /\ ~Contains(o.bymonth.v, ymd.m)
    \/ o.byweekday.v # <<>> /\ ~Contains(o.byweekday.v, WeekdayOf(day))
    \/ o.bymonthday.v # <<>> /\ ~Contains(o.bymonthday.v, ymd.d)

IsFiltered(o, day) == IsFilteredOn(o, Ymd[day], day)

\* the candidates of one period: every kept day, in day-set order, combined
\* with every time of the time set (buildTimeset), with the anchor's milliseconds
WithTimes(o, days) ==
    LET nt == Len(o.bytime.v)
    IN  [k \in 1..(Len(days) * nt) |->
            Instant(days[((k - 1) \div nt) + 1], o.bytime.v[((k - 1) % nt) + 1], MsOf(o.dtstart))]

Candidates(o, c) == WithTimes(o, SelectSeq(DaySet(o, c), LAMBDA d : ~IsFiltered(o, d)))

\* the callback with an inclusive comparison, i <= maxOccurrences
WithinCapInclusive(i, maxOccurrences) == i <= maxOccurrences

\* generateOccurrences, the callback given to all(): (date, i) => i < maxOccurrences
WithinCap(i, maxOccurrences) == i < maxOccurrences

\* IterResult.accept / CallbackIterResult.add: the collector takes a date
\* ("all" with the callback i < cap; "after" keeps the first date >= min)
Accept(acc, date) ==
    IF acc.mode = "all"
    THEN IF WithinCap(Len(acc.res), acc.cap)
         THEN [acc EXCEPT !.res = Append(@, date)]
         ELSE [acc EXCEPT !.done = TRUE]
    ELSE IF date < acc.min
         THEN acc
         ELSE [acc EXCEPT !.res = Append(@, date), !.done = TRUE]

\* the count runs out one date late
CountedLate(a) ==
    IF a.done \/ a.count = -1 THEN a
    ELSE [a EXCEPT !.count = @ - 1, !.done = (a.count = 0)]

\* iter: after a date is accepted the remaining count goes down by one, and
\* the iteration is done when it reaches zero
Counted(a) ==
    IF a.done \/ a.count = -1 THEN a
    ELSE [a EXCEPT !.count = @ - 1, !.done = (a.count = 1)]

\* the inner loop body without the UNTIL test
OfferIgnoringUntil(o, acc, date) ==
    IF date >= o.dtstart THEN Counted(Accept(acc, date)) ELSE acc

\* iter, the body of the inner loop for one candidate
Offer(o, acc, date) ==
    IF o.until # -1 /\ date > o.until THEN [acc EXCEPT !.done = TRUE]
    ELSE IF date >= o.dtstart THEN Counted(Accept(acc, date)) ELSE acc

RECURSIVE OfferRange(_, _, _, _, _)
\* iter, the inner loop over candidates lo..hi in order, evaluated by halves
OfferRange(o, acc, cands, lo, hi) ==
    IF acc.done \/ lo > hi THEN acc
    ELSE IF lo = hi THEN Offer(o, acc, cands[lo])
    ELSE OfferRange(o, OfferRange(o, acc, cands, lo, (lo + hi) \div 2), cands, ((lo + hi) \div 2) + 1, hi)

\* iter, the inner loop over the candidates of a period
OfferAll(o, acc, cands) == OfferRange(o, acc, cands, 1, Len(cands))

\* DateTime.add: the counter date moved on by interval periods
AddInterval(o, c) ==
    CASE o.freq = 0 -> [c EXCEPT !.y = @ + o.interval]
      [] o.freq = 1 ->
            LET months == (c.y * 12 + (c.m - 1)) + o.interval
            IN  [c EXCEPT !.y = months \div 12, !.m = (months % 12) + 1]
      [] OTHER ->
            LET day == IF o.freq = 2 THEN c.day - WeekdayOf(c.day) + 7 * o.interval
                       ELSE c.day + o.interval
            IN  IF day > MaxDay THEN [c EXCEPT !.y = MaxYear + 1, !.day = day] ELSE CounterAt(day)

\* iter, one round of the outer loop: the period's candidates are offered,
\* then the counter moves on; the loop ends when the collector is done,
\* when the interval is 0 and when the counter passes the last year (MAXYEAR)
Round(o, a, next) ==
    [acc |-> a, c |-> next, stop |-> a.done \/ o.interval = 0 \/ next.y > MaxYear]

IterStep(o, st) == Round(o, OfferAll(o, st.acc, Candidates(o, st.c)), AddInterval(o, st.c))

RECURSIVE IterSteps(_, _, _)
\* iter, at most n rounds of the outer loop
IterSteps(o, st, n) ==
    IF st.stop \/ n = 0 THEN st ELSE IterSteps(o, IterStep(o, st), n - 1)

RECURSIVE IterBlocks(_, _, _)
\* iter, at most n rounds of the outer loop, evaluated by halves down to
\* blocks of IterBlock rounds
IterBlocks(o, st, n) ==
    IF st.stop THEN st
    ELSE IF n <= IterBlock THEN IterSteps(o, st, n)
    ELSE IterBlocks(o, IterBlocks(o, st, n \div 2), n - (n \div 2))

\* iter, the outer loop: every round moves the counter on by a day at
\* least, so the loop has stopped after one round per day up to MAXYEAR
IterLoop(o, st) == IterBlocks(o, st, MaxDay + 1).acc

\* iter
Iter(o, acc) ==
    IF o.count = 0 \/ o.interval = 0 THEN acc
    ELSE IterLoop(o, [acc |-> [acc EXCEPT !.count = o.count],
                      c |-> CounterAt(UtcDay(o.dtstart)), stop |-> FALSE])

\* RRule.all(iterator) with iterator = (date, i) => i < cap
All(o, cap) == Iter(o, [mode |-> "all", cap |-> cap, min |-> 0, res |-> <<>>, count |-> -1, done |-> FALSE]).res

\* RRule.after(dt, true): the first occurrence at or after dt, <<>> for null
After(o, dt) == Iter(o, [mode |-> "after", cap |-> 0, min |-> dt, res |-> <<>>, count |-> -1, done |-> FALSE]).res

----------------------------------------------------------------------------
(* rruleUtils.ts *)

\* a RepeatRule; absent optional fields: count 0, until -1, empty lists
RepeatRule(frequency, interval, count, until, byWeekday, byMonthDay) ==
    [frequency |-> frequency, interval |-> interval, count |-> count, until |-> until,
     byWeekday |-> byWeekday, byMonthDay |-> byMonthDay]

\* rrule optionsToString: the parts of the options generateRRule builds, in key order
OptionParts(rule) ==
    <<Part("FREQ", <<FrequencyName(FREQUENCY_MAP(rule.frequency))>>)>>
    \o <<Part("INTERVAL", <<IF rule.interval = 0 THEN 1 ELSE rule.interval>>)>>
    \o (IF rule.count # 0 THEN <<Part("COUNT", <<rule.count>>)>>
        ELSE IF rule.until # -1 THEN <<Part("UNTIL", UntilString(rule.until))>> ELSE <<>>)
    \o (IF rule.byWeekday # <<>>
        THEN <<Part("BYDAY", [i \in DOMAIN rule.byWeekday |-> WeekdayToken(rule.byWeekday[i])])>>
        ELSE <<>>)
    \o (IF rule.byMonthDay # <<>> THEN <<Part("BYMONTHDAY", rule.byMonthDay)>> ELSE <<>>)

\* generateRRule: the rule text without the "RRULE:" prefix; it rethrows
\* what the RRule constructor throws (a frequency outside FREQUENCY_MAP)
generateRRule(rule) ==
    IF FREQUENCY_MAP(rule.frequency) = -1
    THEN [threw |-> TRUE, text |-> Text(FALSE, <<>>)]
    ELSE [threw |-> FALSE, text |-> Text(FALSE, OptionParts(rule))]

NullRule == [threw |-> FALSE, isNull |-> TRUE, rule |-> RepeatRule("", 0, 0, -1, <<>>, <<>>)]

\* the RepeatRule parseRRule reads off rrule.options
RuleOf(options) ==
    RepeatRule(FREQUENCY_REVERSE_MAP(options.freq),
               IF options.interval = 0 THEN 1 ELSE options.interval,
               IF options.count \in {0, -1} THEN 0 ELSE options.count,
               options.until,
               IF options.byweekday.set THEN options.byweekday.v ELSE <<>>,
               options.bymonthday.v)

\* parseRRule without its try/catch: what the library throws reaches the caller
ParsedUncaught(r) ==
    IF r.threw THEN [NullRule EXCEPT !.threw = TRUE, !.isNull = FALSE]
    ELSE [threw |-> FALSE, isNull |-> FALSE, rule |-> RuleOf(r.o)]

\* parseRRule after RRule.fromString: null from the catch, else the rule
Parsed(r) ==
    IF r.threw THEN NullRule
    ELSE [threw |-> FALSE, isNull |-> FALSE, rule |-> RuleOf(r.o)]

\* parseRRule: the RepeatRule read off rrule.options, null when the library throws
parseRRule(text, clock) == Parsed(FromString(text, clock))

\* the program constant: default maxOccurrences
DefaultMaxOccurrences == 365

\* options.dtstart = startDate on the options of a parsed rule
WithDtstart(r, startDate) == [r EXCEPT !.o.dtstart = startDate]

\* the rule generateOccurrences and getNextOccurrence expand: the options of
\* the parsed text with dtstart replaced, given to a new RRule
Reanchored(text, startDate, clock) ==
    NewRRule(WithDtstart(FromString(text, clock), startDate), clock)

\* generateOccurrences without its try/catch
ExpandedUncaught(r, maxOccurrences) ==
    IF r.threw THEN [threw |-> TRUE, res |-> <<>>]
    ELSE [threw |-> FALSE, res |-> All(r.o, maxOccurrences)]

\* generateOccurrences after the rule is built: [] from the catch, else all()
ExpandedRule(r, maxOccurrences) ==
    IF r.threw THEN [threw |-> FALSE, res |-> <<>>]
    ELSE [threw |-> FALSE, res |-> All(r.o, maxOccurrences)]

\* generateOccurrences: [] when the library throws
generateOccurrences(startDate, text, maxOccurrences, clock) ==
    ExpandedRule(Reanchored(text, startDate, clock), maxOccurrences)

\* getNextOccurrence after the rule is built: null from the catch, else after(now, true)
NextOf(r, clock) ==
    IF r.threw THEN [threw |-> FALSE, res |-> <<>>]
    ELSE [threw |-> FALSE, res |-> After(r.o, clock)]

\* getNextOccurrence: <<d>> for a date, <<>> for null (also when the library throws)
getNextOccurrence(startDate, text, clock) == NextOf(Reanchored(text, startDate, clock), clock)

\* isDateInRRule after the expansion: some occurrence falls on the local
\* calendar day of date
OnSameDay(g, date, zone) ==
    IF g.threw THEN [threw |-> FALSE, found |-> FALSE]
    ELSE [threw |-> FALSE,
          found |-> \E i \in DOMAIN g.res : LocalDay(g.res[i], zone) = LocalDay(date, zone)]

\* isDateInRRule: some occurrence of the default expansion falls on the local
\* calendar day of date; false when anything throws
isDateInRRule(date, startDate, text, clock, zone) ==
    OnSameDay(generateOccurrences(startDate, text, DefaultMaxOccurrences, clock), date, zone)

----------------------------------------------------------------------------
(* The recurrence engine as a state machine.  The clock advances; callers  *)
(* call one function at a time with inputs from the sets below; call and   *)
(* occ record the last call and its result until the caller is done.       *)

\* anchors: Monday 2024-01-29, Saturday 2024-02-10, Wednesday 2024-01-31
Starts ==
    {Instant(ToOrdinal(2024, 1, 29), 1, 0),
     Instant(ToOrdinal(2024, 2, 10), 0, 1),
     Instant(ToOrdinal(2024, 1, 31), TodSlots - 1, 0)}

\* clock readings: Monday 2024-01-29, Wednesday 2024-01-31, Tuesday 2024-03-05
Clocks ==
    {Instant(ToOrdinal(2024, 1, 29), 0, 1),
     Instant(ToOrdinal(2024, 1, 31), TodSlots - 1, 0),
     Instant(ToOrdinal(2024, 3, 5), 1, 0)}

\* UNTIL dates: with and without a millisecond part
Untils ==
    {Instant(ToOrdinal(2024, 2, 14), 1, 0),
     Instant(ToOrdinal(2024, 4, 30), 0, 1)}

Terminations ==
    {[count |-> 0, until |-> -1]}
    \cup {[count |-> c, until |-> -1] : c \in 1..MaxCount}
    \cup {[count |-> 0, until |-> u] : u \in Untils}

ByLists ==
    {[byWeekday |-> <<>>, byMonthDay |-> <<>>],
     [byWeekday |-> <<0, 2, 4>>, byMonthDay |-> <<>>],
     [byWeekday |-> <<>>, byMonthDay |-> <<31>>],
     [byWeekday |-> <<>>, byMonthDay |-> <<15, 1>>]}

\* the valid rule specs: frequency of the four, interval >= 1, at most one
\* of count and until, optional byWeekday / byMonthDay
RuleSpecs ==
    {RepeatRule(f, i, t.count, t.until, b.byWeekday, b.byMonthDay) :
        f \in {"DAILY", "WEEKLY", "MONTHLY", "YEARLY"}, i \in 1..2, t \in Terminations, b \in ByLists}
    \cup {RepeatRule("MONTHLY", 12, c, -1, <<>>, <<31>>) : c \in {0, MaxCount}}

\* the texts generateRRule writes for the valid specs
GeneratedTexts == {generateRRule(r).text : r \in RuleSpecs}

\* texts the parser rejects in its structure or frequency token: an empty
\* text, an unknown property, a property without value, an unknown FREQ or
\* BYDAY token
MalformedTexts ==
    {Text(FALSE, <<>>),
     Text(TRUE, <<>>),
     Text(FALSE, <<Part("FREQ", <<"FOO">>), Part("COUNT", <<2>>)>>),
     Text(FALSE, <<Part("FREQ", <<>>)>>),
     Text(FALSE, <<Part("FREQ", <<"DAILY">>), Part("X-FOO", <<1>>)>>),
     Text(FALSE, <<Part("FREQ", <<"DAILY">>), Part("COUNT", <<>>)>>),
     Text(TRUE, <<Part("FREQ", <<"WEEKLY">>), Part("BYDAY", <<"MO", "XX">>)>>)}

\* other stored texts: with the "RRULE:" prefix, with both COUNT and UNTIL,
\* with COUNT=0, without FREQ
OtherTexts ==
    {Text(TRUE, <<Part("FREQ", <<"WEEKLY">>), Part("BYDAY", <<"MO", "WE", "FR">>), Part("COUNT", <<MaxCount>>)>>),
     Text(FALSE, <<Part("FREQ", <<"DAILY">>), Part("COUNT", <<MaxCount>>),
                   Part("UNTIL", <<ToOrdinal(2024, 2, 11), 0>>)>>),
     Text(FALSE, <<Part("FREQ", <<"DAILY">>), Part("UNTIL", <<ToOrdinal(2024, 1, 30), 1>>),
                   Part("COUNT", <<MaxCount>>)>>),
     Text(FALSE, <<Part("FREQ", <<"DAILY">>), Part("COUNT", <<0>>)>>),
     Text(FALSE, <<Part("INTERVAL", <<2>>), Part("COUNT", <<2>>)>>)}

\* the rule texts expanded and queried
Texts == GeneratedTexts \cup MalformedTexts \cup OtherTexts

\* texts whose frequency the app's RepeatRule does not have
SubDailyTexts ==
    {Text(FALSE, <<Part("FREQ", <<f>>), Part("INTERVAL", <<1>>)>>) : f \in {"HOURLY", "MINUTELY", "SECONDLY"}}

\* the value of part key of a text, <<>> when the text has no such part
PartOf(text, key) ==
    IF \E i \in DOMAIN text.parts : text.parts[i].key = key
    THEN text.parts[CHOOSE i \in DOMAIN text.parts : text.parts[i].key = key].val
    ELSE <<>>

HasPart(text, key) == \E i \in DOMAIN text.parts : text.parts[i].key = key

NoText == Text(FALSE, <<>>)

NoCall == [op |-> "none", start |-> 0, text |-> NoText, cap |-> 0, date |-> 0, clock |-> 0,
           rule |-> NullRule.rule, threw |-> FALSE, isNull |-> FALSE, res |-> <<>>, found |-> FALSE]

NoOcc == [called |-> FALSE, start |-> 0, text |-> NoText, clock |-> 0, res |-> <<>>]

RRuleIsIdle == call.op = "none" /\ ~occ.called

\* time passes
Tick ==
    /\ \E t \in Clocks : t > now /\ now' = t
    /\ UNCHANGED <<tz, call, occ, conv, back, svcVars, uiVars>>

\* the call record c with the fields of the returned value r
Returned(c, r) == [k \in DOMAIN c |-> IF k \in DOMAIN r THEN r[k] ELSE c[k]]

\* EventForm.tsx:237 generateRRule(spec)
GenerateRRuleCall(rule) ==
    /\ RRuleIsIdle
    /\ call' = Returned([NoCall EXCEPT !.op = "generateRRule", !.rule = rule, !.clock = now],
                        generateRRule(rule))
    /\ UNCHANGED <<now, tz, occ, conv, back, svcVars, uiVars>>

\* the parsed rule kept beside the spec it was generated from
AsResult(r) == [threw |-> r.threw, isNull |-> r.isNull, res |-> <<r.rule>>]

\* the stored text of the generated rule is parsed again (EventDetail)
ParseGenerated ==
    /\ call.op = "generateRRule" /\ ~call.threw
    /\ call' = Returned([call EXCEPT !.op = "roundTrip", !.clock = now],
                        AsResult(parseRRule(call.text, now)))
    /\ UNCHANGED <<now, tz, occ, conv, back, svcVars, uiVars>>

\* parseRRule(text) on a stored text
ParseRRuleCall(text) ==
    /\ RRuleIsIdle
    /\ call' = Returned([NoCall EXCEPT !.op = "parseRRule", !.text = text, !.clock = now],
                        parseRRule(text, now))
    /\ UNCHANGED <<now, tz, occ, conv, back, svcVars, uiVars>>

\* generateOccurrences(startDate, text, maxOccurrences)
GenerateOccurrencesCall(startDate, text, maxOccurrences) ==
    /\ RRuleIsIdle
    /\ call' = Returned([NoCall EXCEPT !.op = "generateOccurrences", !.start = startDate, !.text = text,
                                       !.cap = maxOccurrences, !.clock = now],
                        generateOccurrences(startDate, text, maxOccurrences, now))
    /\ occ' = [called |-> TRUE, start |-> startDate, text |-> text, clock |-> now, res |-> call'.res]
    /\ UNCHANGED <<now, tz, conv, back, svcVars, uiVars>>

\* a date-time at time-of-day slot tod of the local calendar day of instant t
SameDayAt(t, tod, zone) == Instant(LocalDay(t, zone), tod, 0) - zone * MsSlots

\* isDateInRRule(date, startDate, text) for a date on the calendar day of one
\* of the occurrences the caller holds
CheckOccurrence(i, tod) ==
    /\ occ.called /\ call.op = "generateOccurrences" /\ call.cap = DefaultMaxOccurrences
    /\ i \in DOMAIN occ.res
    /\ call' = Returned([NoCall EXCEPT !.op = "checkOccurrence", !.start = occ.start, !.text = occ.text,
                                       !.date = SameDayAt(occ.res[i], tod, tz), !.clock = now],
                        isDateInRRule(SameDayAt(occ.res[i], tod, tz), occ.start, occ.text, now, tz))
    /\ UNCHANGED <<now, tz, occ, conv, back, svcVars, uiVars>>

\* isDateInRRule(date, startDate, text) on a stored text
IsDateInRRuleCall(date, startDate, text) ==
    /\ RRuleIsIdle
    /\ call' = Returned([NoCall EXCEPT !.op = "isDateInRRule", !.start = startDate, !.text = text,
                                       !.date = date, !.clock = now],
                        isDateInRRule(date, startDate, text, now, tz))
    /\ UNCHANGED <<now, tz, occ, conv, back, svcVars, uiVars>>

\* getNextOccurrence(startDate, text)
GetNextOccurrenceCall(startDate, text) ==
    /\ RRuleIsIdle
    /\ call' = Returned([NoCall EXCEPT !.op = "getNextOccurrence", !.start = startDate, !.text = text,
                                       !.clock = now],
                        getNextOccurrence(startDate, text, now))
    /\ UNCHANGED <<now, tz, occ, conv, back, svcVars, uiVars>>

\* the caller is done with the result
RRuleReturn ==
    /\ ~RRuleIsIdle
    /\ call' = NoCall
    /\ occ' = NoOcc
    /\ UNCHANGED <<now, tz, conv, back, svcVars, uiVars>>

\* no lunar conversion has been made
NoConv == [called |-> FALSE, date |-> 0,
           out |-> [year |-> 0, month |-> 0, day |-> 0, isLeapMonth |-> FALSE]]

NoBack == [called |-> FALSE, from |-> "none", year |-> 0, month |-> 0, day |-> 0,
           isLeapMonth |-> FALSE, threw |-> FALSE, date |-> 0]

LunarIdleInit ==
    /\ conv = NoConv
    /\ back = NoBack

\* no query result is held by a caller
NoAsk == [op |-> "none", reading |-> <<>>, year |-> 0, month |-> 0, isLeapMonth |-> FALSE, res |-> <<>>]

\* a caller of getFullDateInfo that has not entered it
NoThread == [pc |-> "idle", date |-> 0, info |-> <<>>, miss |-> FALSE]

\* no LunarDatePicker is on screen
NoPicker == [mounted |-> FALSE, validStart |-> FALSE, last |-> "none",
             year |-> 0, month |-> 0, day |-> 0, isLeapMonth |-> FALSE]

\* create<EventStore>: no events, not loading; the table is empty and no call is in flight
NoStore == [events |-> <<>>, isLoading |-> FALSE, rows |-> {},
            load |-> [pc |-> "idle", newEvents |-> <<>>],
            del |-> [pc |-> "idle", id |-> 0],
            add |-> [pc |-> "idle", id |-> 0],
            created |-> {}, deleted |-> {}]

\* no getLazyLoadData call has been made
NoRead == [called |-> FALSE, year |-> 0, month |-> 0, weekStart |-> "none", data |-> <<>>]

\* MonthView is not mounted
NoPre == [mounted |-> FALSE, weekStart |-> "none", prevWeekStart |-> "none",
          year |-> 0, month |-> 0, swipes |-> 0,
          cache |-> <<>>, preloading |-> {}, timers |-> {}, animating |-> "none",
          read |-> NoRead]

UiIdle ==
    /\ picker = NoPicker
    /\ store = NoStore
    /\ pre = NoPre

\* new LunarService(): an empty cache, nothing computed, nobody calling
ServiceInit ==
    /\ cache = <<>>
    /\ computed = 0
    /\ ret = <<>>
    /\ requested = {}
    /\ thr = [t \in 1..2 |-> NoThread]
    /\ ask = NoAsk

TzSet == {0, 1}

Init ==
    /\ now \in Clocks
    /\ tz \in TzSet
    /\ call = NoCall
    /\ occ = NoOcc
    /\ LunarIdleInit
    /\ ServiceInit
    /\ UiIdle

Next ==
    \/ Tick
    \/ RRuleIsIdle /\ \E rule \in RuleSpecs : GenerateRRuleCall(rule)
    \/ ParseGenerated
    \/ RRuleIsIdle /\ \E text \in Texts \cup SubDailyTexts : ParseRRuleCall(text)
    \/ RRuleIsIdle /\ \E startDate \in Starts, text \in Texts, maxOccurrences \in (0..MaxCap) \cup {DefaultMaxOccurrences} :
           GenerateOccurrencesCall(startDate, text, maxOccurrences)
    \/ RRuleIsIdle /\ \E date \in Starts, startDate \in Starts, text \in MalformedTexts \cup OtherTexts :
           IsDateInRRuleCall(date, startDate, text)
    \/ RRuleIsIdle /\ \E startDate \in Starts, text \in Texts : GetNextOccurrenceCall(startDate, text)
    \/ RRuleReturn

Spec == Init /\ [][Next]_vars

\* the texts whose occurrences are held for containment queries: valid
\* specs with interval 1 that end after MaxCount occurrences, at the first
\* UNTIL date, or never
ContainTexts ==
    {generateRRule(r).text : r \in {q \in RuleSpecs : /\ q.interval = 1
                                                      /\ q.count \in {0, MaxCount}
                                                      /\ q.until \in {-1, Instant(ToOrdinal(2024, 2, 14), 1, 0)}
                                                      /\ Len(q.byMonthDay) < 2}}

\* the positions of a held occurrence list that a containment query is made for
Picks == {1, 2, Len(occ.res)}

NextContain ==
    \/ Tick
    \/ RRuleIsIdle /\ \E startDate \in Starts, text \in ContainTexts :
           GenerateOccurrencesCall(startDate, text, DefaultMaxOccurrences)
    \/ occ.called /\ \E i \in Picks, tod \in 0..(TodSlots - 1) : CheckOccurrence(i, tod)
    \/ RRuleReturn

SpecContain == Init /\ [][NextContain]_vars

----------------------------------------------------------------------------
(* Properties of the recurrence engine *)

\* the text is rejected by the RRULE grammar in its structure or its
\* frequency token: it is empty, has a property that is not an RRULE
\* property, a property without value, a FREQ token that is not a frequency
\* or a BYDAY token that is not a weekday
Malformed(text) ==
    \/ text.parts = <<>>
    \/ \E i \in DOMAIN text.parts :
          LET part == text.parts[i]
          IN  \/ part.key \notin {"FREQ", "INTERVAL", "COUNT", "UNTIL", "BYDAY", "BYMONTHDAY"}
              \/ part.val = <<>>
              \/ part.key = "FREQ" /\ part.val[1] \notin {"YEARLY", "MONTHLY", "WEEKLY", "DAILY",
                                                        "HOURLY", "MINUTELY", "SECONDLY"}
              \/ part.key = "BYDAY" /\ \E j \in DOMAIN part.val : part.val[j] \notin
                                          {"MO", "TU", "WE", "TH", "FR", "SA", "SU"}

Expanded == call.op = "generateOccurrences"

\* C1: generateOccurrences(start, rule, N) returns at most N dates for every
\* anchor, rule text (also without COUNT and UNTIL) and cap N >= 0, and at
\* most 365 dates when N is omitted.
C1_AtMostCap ==
    Expanded => /\ Len(call.res) <= call.cap
                /\ Len(call.res) <= DefaultMaxOccurrences

\* a rule without COUNT and UNTIL was cut at the default cap
C1_Witness ==
    /\ Expanded /\ call.cap = DefaultMaxOccurrences
    /\ ~HasPart(call.text, "COUNT") /\ ~HasPart(call.text, "UNTIL")
    /\ Len(call.res) = DefaultMaxOccurrences

\* C2: for every valid rule spec, parseRRule(generateRRule(spec)) is spec,
\* field for field, absent fields staying absent.
C2_RoundTrip ==
    call.op = "roundTrip" => (~call.isNull /\ call.res[1] = call.rule)

\* C3: the list generateOccurrences returns is strictly ascending.
C3_StrictlyAscending ==
    Expanded => \A i \in 1..(Len(call.res) - 1) : call.res[i] < call.res[i + 1]

\* three by-weekday matches of the same week were returned
C3_Witness ==
    /\ Expanded /\ Len(call.res) >= 3
    /\ PartOf(call.text, "BYDAY") = <<"MO", "WE", "FR">>
    /\ UtcDay(call.res[3]) - UtcDay(call.res[1]) < 7

\* the COUNT value of the held text
CountOf(text) == PartOf(text, "COUNT")[1]

\* C4 as stated: with COUNT=c at most c dates are returned, and exactly
\* min(c, cap) when the rule has no UNTIL.
C4_CountExact ==
    (Expanded /\ ~Malformed(call.text) /\ HasPart(call.text, "COUNT"))
        => /\ Len(call.res) <= CountOf(call.text)
           /\ ~HasPart(call.text, "UNTIL") => Len(call.res) = Min(CountOf(call.text), call.cap)

\* the rule the expansion of the held call runs on
CallOptions == Reanchored(call.text, call.start, call.clock).o

\* a day belongs to a period the rule visits: a whole number of intervals
\* after the anchor's day, week (from Monday), month or year
InPeriod(o, day) ==
    LET d0 == UtcDay(o.dtstart)
    IN  /\ day >= d0
        /\ CASE o.freq = 3 -> (day - d0) % o.interval = 0
             [] o.freq = 2 -> (((day - WeekdayOf(day)) - (d0 - WeekdayOf(d0))) \div 7) % o.interval = 0
             [] o.freq = 1 -> ((Ymd[day].y * 12 + Ymd[day].m) - (Ymd[d0].y * 12 + Ymd[d0].m)) % o.interval = 0
             [] OTHER -> (Ymd[day].y - Ymd[d0].y) % o.interval = 0

\* the number of date-times at or after the anchor that the rule selects
Available(o) ==
    Cardinality({day \in UtcDay(o.dtstart)..MaxDay :
                    /\ InPeriod(o, day)
                    /\ ~IsFiltered(o, day)
                    /\ Instant(day, o.bytime.v[1], MsOf(o.dtstart)) >= o.dtstart})

\* C4 amended: with COUNT=c at most c dates are returned, and without UNTIL
\* exactly min(c, cap) of them unless the rule selects fewer date-times at
\* or after the anchor, in which case all of those.
C4_CountBound ==
    (Expanded /\ ~Malformed(call.text) /\ HasPart(call.text, "COUNT"))
        => /\ Len(call.res) <= CountOf(call.text)
           /\ ~HasPart(call.text, "UNTIL") =>
                 \/ Len(call.res) = Min(CountOf(call.text), call.cap)
                 \/ /\ Len(call.res) < Min(CountOf(call.text), call.cap)
                    /\ Len(call.res) = Available(CallOptions)

\* COUNT ended the expansion below the cap
C4_Witness ==
    /\ Expanded /\ ~Malformed(call.text)
    /\ HasPart(call.text, "COUNT") /\ ~HasPart(call.text, "UNTIL")
    /\ CountOf(call.text) > 0 /\ call.cap > CountOf(call.text)
    /\ Len(call.res) = CountOf(call.text)

\* C5: with UNTIL=u no returned date is later than u.
C5_NotAfterUntil ==
    (Expanded /\ ~Malformed(call.text) /\ HasPart(call.text, "UNTIL"))
        => \A i \in DOMAIN call.res : call.res[i] <= UntilDate(PartOf(call.text, "UNTIL"))

\* UNTIL, not COUNT or the cap, ended a non-empty expansion
C5_Witness ==
    /\ Expanded /\ HasPart(call.text, "UNTIL") /\ ~HasPart(call.text, "COUNT")
    /\ call.res # <<>> /\ Len(call.res) < call.cap

\* C6: every date-time on the calendar day of a date returned by
\* generateOccurrences(start, rule) is contained: isDateInRRule is true.
C6_Containment ==
    call.op = "checkOccurrence" => call.found

----------------------------------------------------------------------------
(* lunar-javascript: the lunar month table                                  *)
(* Lunar years 2023..2025: <<lunar year, month, days>>, a leap month        *)
(* carries the negated number of the month it repeats.  Lunar 2023-01-01   *)
(* is 2023-01-22, lunar 2024-01-01 is 2024-02-10, lunar 2025-01-01 is      *)
(* 2025-01-29, and the table ends on 2026-02-16.                           *)

LunarMonthTable ==
    << <<2023, 1, 29>>, <<2023, 2, 30>>, <<2023, -2, 29>>, <<2023, 3, 29>>,
       <<2023, 4, 30>>, <<2023, 5, 30>>, <<2023, 6, 29>>, <<2023, 7, 30>>,
       <<2023, 8, 30>>, <<2023, 9, 29>>, <<2023, 10, 30>>, <<2023, 11, 29>>,
       <<2023, 12, 30>>,
       <<2024, 1, 29>>, <<2024, 2, 30>>, <<2024, 3, 29>>, <<2024, 4, 29>>,
       <<2024, 5, 30>>, <<2024, 6, 29>>, <<2024, 7, 30>>, <<2024, 8, 30>>,
       <<2024, 9, 29>>, <<2024, 10, 30>>, <<2024, 11, 30>>, <<2024, 12, 29>>,
       <<2025, 1, 30>>, <<2025, 2, 29>>, <<2025, 3, 30>>, <<2025, 4, 29>>,
       <<2025, 5, 29>>, <<2025, 6, 30>>, <<2025, -6, 29>>, <<2025, 7, 30>>,
       <<2025, 8, 29>>, <<2025, 9, 30>>, <<2025, 10, 30>>, <<2025, 11, 30>>,
       <<2025, 12, 29>> >>

\* the Gregorian day of lunar 2023-01-01
FirstLunarDay == ToOrdinal(2023, 1, 22)

RECURSIVE LunarMonthStart(_)
\* LunarMonth.getFirstJulianDay: the Gregorian day on which table month i begins
LunarMonthStart(i) ==
    IF i <= 1 THEN FirstLunarDay ELSE LunarMonthStart(i - 1) + LunarMonthTable[i - 1][3]

\* the first Gregorian day of every table month, computed once
LunarStart == [i \in DOMAIN LunarMonthTable |-> LunarMonthStart(i)]

LastLunarDay == LunarStart[Len(LunarMonthTable)] + LunarMonthTable[Len(LunarMonthTable)][3] - 1

LunarYearsSet == {LunarMonthTable[i][1] : i \in DOMAIN LunarMonthTable}

\* LunarYear.getMonth(m): the index of month m of lunar year y, 0 (null) when
\* the year has no such month
LunarMonthIndex(y, m) ==
    IF \E i \in DOMAIN LunarMonthTable : LunarMonthTable[i][1] = y /\ LunarMonthTable[i][2] = m
    THEN CHOOSE i \in DOMAIN LunarMonthTable : LunarMonthTable[i][1] = y /\ LunarMonthTable[i][2] = m
    ELSE 0

\* Solar.getLunar(): the lunar month containing a Gregorian day, and the day in it
LunarFromSolar(day) ==
    LET i == CHOOSE k \in DOMAIN LunarMonthTable :
                 LunarStart[k] <= day /\ day < LunarStart[k] + LunarMonthTable[k][3]
    IN  [year |-> LunarMonthTable[i][1], month |-> LunarMonthTable[i][2],
         day |-> day - LunarStart[i] + 1]

\* a conversion that does not check the day against the month's length
LunarToSolarDayUnchecked(y, m, d) ==
    LET i == LunarMonthIndex(y, m)
    IN  IF i = 0 \/ d < 1
        THEN [threw |-> TRUE, day |-> 0]
        ELSE [threw |-> FALSE, day |-> LunarStart[i] + d - 1]

\* Lunar.fromYmd(y, m, d).getSolar(): throws for a month the year does not
\* have and for a day outside the month
LunarToSolarDay(y, m, d) ==
    LET i == LunarMonthIndex(y, m)
    IN  IF i = 0 \/ d < 1 \/ d > LunarMonthTable[i][3]
        THEN [threw |-> TRUE, day |-> 0]
        ELSE [threw |-> FALSE, day |-> LunarStart[i] + d - 1]

----------------------------------------------------------------------------
(* LunarService *)

\* LunarService.solarToLunar
solarToLunar(date, zone) ==
    LET lunar == LunarFromSolar(LocalDay(date, zone))
    IN  [year |-> lunar.year,
         month |-> lunar.month,
         day |-> lunar.day,
         isLeapMonth |-> lunar.month < 0]

\* LunarService.lunarToSolar: the local midnight of the Gregorian day
lunarToSolar(year, month, day, isLeapMonth, zone) ==
    LET lunarMonth == IF isLeapMonth THEN -month ELSE month
        solar == LunarToSolarDay(year, lunarMonth, day)
    IN  IF solar.threw
        THEN [threw |-> TRUE, date |-> 0]
        ELSE [threw |-> FALSE, date |-> Instant(solar.day, 0, 0) - zone * MsSlots]

\* LunarMonth.getDayCount() of table month i, with 0 for a month that is absent
DayCountOrZero(i) == IF i = 0 THEN 0 ELSE LunarMonthTable[i][3]

\* getLunarMonthDays: lunarMonth ? lunarMonth.getDayCount() : 30
DayCountOr30(i) == IF i = 0 THEN 30 ELSE LunarMonthTable[i][3]

\* LunarService.getLunarMonthDays
getLunarMonthDays(year, month, isLeapMonth) ==
    DayCountOr30(LunarMonthIndex(year, IF isLeapMonth THEN -month ELSE month))

\* the day list built with the leap flag dropped
DayListIgnoringLeap(year, month, isLeapMonth) ==
    [day \in 1..getLunarMonthDays(year, month, FALSE) |-> day]

\* LunarService.getLunarDayList: the values of the list, one entry per day
getLunarDayList(year, month, isLeapMonth) ==
    [day \in 1..getLunarMonthDays(year, month, isLeapMonth) |-> day]

\* TRADITIONAL_FESTIVALS (types/lunar.ts), names in pinyin: Spring Festival,
\* Lantern, Dragon Head, Dragon Boat, Qixi, Ghost, Mid-Autumn, Double Ninth,
\* Laba, New Year's Eve
TRADITIONAL_FESTIVALS ==
    << [month |-> 1, day |-> 1, name |-> "ChunJie"],
       [month |-> 1, day |-> 15, name |-> "YuanXiaoJie"],
       [month |-> 2, day |-> 2, name |-> "LongTaiTou"],
       [month |-> 5, day |-> 5, name |-> "DuanWuJie"],
       [month |-> 7, day |-> 7, name |-> "QiXiJie"],
       [month |-> 7, day |-> 15, name |-> "ZhongYuanJie"],
       [month |-> 8, day |-> 15, name |-> "ZhongQiuJie"],
       [month |-> 9, day |-> 9, name |-> "ChongYangJie"],
       [month |-> 12, day |-> 8, name |-> "LaBaJie"],
       [month |-> 12, day |-> 30, name |-> "ChuXi"] >>

\* modernFestivals of getFestivals: New Year's Day, Labour Day, National Day
ModernFestivals ==
    << [month |-> 1, day |-> 1, name |-> "YuanDan"],
       [month |-> 5, day |-> 1, name |-> "LaoDongJie"],
       [month |-> 10, day |-> 1, name |-> "GuoQingJie"] >>

\* Lunar.getJieQi(): the solar term that falls on a Gregorian day, "" for
\* none.  The terms of 2023..2025 the model carries: LiChun, ChunFen,
\* QingMing and DongZhi.
JieQiDays ==
    << <<ToOrdinal(2023, 2, 4), "LiChun">>, <<ToOrdinal(2023, 3, 21), "ChunFen">>,
       <<ToOrdinal(2023, 4, 5), "QingMing">>, <<ToOrdinal(2023, 12, 22), "DongZhi">>,
       <<ToOrdinal(2024, 2, 4), "LiChun">>, <<ToOrdinal(2024, 3, 20), "ChunFen">>,
       <<ToOrdinal(2024, 4, 4), "QingMing">>, <<ToOrdinal(2024, 12, 21), "DongZhi">>,
       <<ToOrdinal(2025, 2, 3), "LiChun">>, <<ToOrdinal(2025, 3, 20), "ChunFen">>,
       <<ToOrdinal(2025, 4, 4), "QingMing">>, <<ToOrdinal(2025, 12, 21), "DongZhi">> >>

JieQiOf(day) ==
    IF \E i \in DOMAIN JieQiDays : JieQiDays[i][1] = day
    THEN JieQiDays[CHOOSE i \in DOMAIN JieQiDays : JieQiDays[i][1] = day][2]
    ELSE ""

\* JIE_TERMS, of the terms carried
JIE_TERMS == {"LiChun", "QingMing"}

\* what getFestivals and getSolarTerm read of a date: the lunar date of
\* Solar.fromDate(date).getLunar(), its solar term, and the local month and
\* day of the date
ReadingOn(lunar, jieQi, ymd) ==
    [year |-> lunar.year, month |-> lunar.month, day |-> lunar.day,
     jieQi |-> jieQi, solarMonth |-> ymd.m, solarDay |-> ymd.d]

ReadingOfDay(day) == ReadingOn(LunarFromSolar(day), JieQiOf(day), Ymd[day])

Reading(date, zone) == ReadingOfDay(LocalDay(date, zone))

\* LunarService.getSolarTerm, from the term name read; set = FALSE is undefined
SolarTermOf(jieQi, date) ==
    IF jieQi # ""
    THEN [set |-> TRUE, name |-> jieQi, date |-> date,
          jieOrQi |-> IF jieQi \in JIE_TERMS THEN "jie" ELSE "qi"]
    ELSE [set |-> FALSE, name |-> "", date |-> 0, jieOrQi |-> ""]

\* LunarService.getSolarTerm
getSolarTerm(date, zone) == SolarTermOf(JieQiOf(LocalDay(date, zone)), date)

Abs(n) == IF n < 0 THEN -n ELSE n

Festival(name, type, isLunar) == [name |-> name, type |-> type, isLunar |-> isLunar]

\* getFestivals, the test of one entry of TRADITIONAL_FESTIVALS
MatchesTraditional(r, festival) ==
    /\ festival.month = Abs(r.month) /\ festival.day = r.day /\ ~(r.month < 0)
    /\ festival.name = "ChuXi" => r.day = getLunarMonthDays(r.year, 12, FALSE)

\* getFestivals, first pass: the traditional festivals of the lunar date, in table order
TraditionalOf(r) ==
    LET hits == SelectSeq(TRADITIONAL_FESTIVALS, LAMBDA f : MatchesTraditional(r, f))
    IN  [i \in DOMAIN hits |-> Festival(hits[i].name, "traditional", TRUE)]

\* getFestivals, second pass: QingMing and DongZhi as festivals
TermFestivalOf(r) ==
    IF r.jieQi \in {"QingMing", "DongZhi"} THEN <<Festival(r.jieQi, "solar_term", FALSE)>> ELSE <<>>

\* getFestivals, third pass: the modern festivals of the Gregorian month and day
ModernOf(r) ==
    LET hits == SelectSeq(ModernFestivals, LAMBDA mf : mf.month = r.solarMonth /\ mf.day = r.solarDay)
    IN  [i \in DOMAIN hits |-> Festival(hits[i].name, "modern", FALSE)]

\* the three passes with the modern festivals pushed first
FestivalsModernFirst(r) == ModernOf(r) \o TermFestivalOf(r) \o TraditionalOf(r)

\* getFestivals on what it reads of the date
FestivalsOf(r) == TraditionalOf(r) \o TermFestivalOf(r) \o ModernOf(r)

\* LunarService.getFestivals
getFestivals(date, zone) == FestivalsOf(Reading(date, zone))

\* getCacheKey: dayjs(date).format('YYYY-MM-DD'), the local year, month and day
KeyOf(ymd) == <<ymd.y, ymd.m, ymd.d>>

\* a key taken from the UTC day of the date-time
getCacheKeyUtc(date, zone) == KeyOf(Ymd[LocalDay(date, 0)])

getCacheKey(date, zone) == KeyOf(Ymd[LocalDay(date, zone)])

\* a FullDateInfo read from the UTC day of the date-time
ComputeInfoUtc(date, zone) ==
    [solar |-> date, lunar |-> solarToLunar(date, 0),
     solarTerm |-> getSolarTerm(date, 0), festivals |-> getFestivals(date, 0)]

\* getFullDateInfo on a miss: the FullDateInfo it computes
ComputeInfo(date, zone) ==
    [solar |-> date, lunar |-> solarToLunar(date, zone),
     solarTerm |-> getSolarTerm(date, zone), festivals |-> getFestivals(date, zone)]

\* a set() that drops the other entries
PutAlone(c, key, info) == [k \in {key} |-> info]

\* Map.set(key, info)
Put(c, key, info) == [k \in DOMAIN c \cup {key} |-> IF k = key THEN info ELSE c[k]]

\* getFullDateInfo on a miss: the info is stored and returned
Stored(c, n, key, info) == [cache |-> Put(c, key, info), computed |-> n + 1, info |-> info, hit |-> FALSE]

\* getFullDateInfo without the cache check
getFullDateInfoUnchecked(c, n, date, zone) ==
    Stored(c, n, getCacheKey(date, zone), ComputeInfo(date, zone))

\* LunarService.getFullDateInfo on cache c with n computations made so far:
\* the cache and the count after the call, and the info returned
getFullDateInfo(c, n, date, zone) ==
    IF getCacheKey(date, zone) \in DOMAIN c
    THEN [cache |-> c, computed |-> n, info |-> c[getCacheKey(date, zone)], hit |-> TRUE]
    ELSE Stored(c, n, getCacheKey(date, zone), ComputeInfo(date, zone))

----------------------------------------------------------------------------
(* The lunar engine as a state machine: callers convert dates one call at a *)
(* time; conv and back record the last call of each direction.             *)

\* the instants whose local calendar day lies in the lunar table
LunarDates(zone) ==
    {Instant(day, tod, 0) - zone * MsSlots : day \in FirstLunarDay..LastLunarDay, tod \in 0..(TodSlots - 1)}

\* no conversion result is held by a caller
LunarIdle == ~conv.called /\ ~back.called

\* a caller converts a Gregorian date (EventForm.tsx:110, LunarService.ts:197)
SolarToLunarCall(date) ==
    /\ LunarIdle
    /\ conv' = [called |-> TRUE, date |-> date, out |-> solarToLunar(date, tz)]
    /\ back' = NoBack
    /\ UNCHANGED <<rruleVars, svcVars, uiVars>>

\* a caller converts the LunarDate it was given back to a Gregorian date
\* (EventForm.tsx:164, LunarService.ts:312)
ConvertBack ==
    /\ conv.called
    /\ LET L == conv.out
           r == lunarToSolar(L.year, L.month, L.day, L.isLeapMonth, tz)
       IN  back' = [called |-> TRUE, from |-> "solarToLunar", year |-> L.year, month |-> L.month,
                    day |-> L.day, isLeapMonth |-> L.isLeapMonth, threw |-> r.threw, date |-> r.date]
    /\ UNCHANGED conv
    /\ UNCHANGED <<rruleVars, svcVars, uiVars>>

\* a caller converts a lunar date picked by the user (LunarDatePicker)
LunarToSolarCall(year, month, day, isLeapMonth) ==
    /\ LunarIdle
    /\ LET r == lunarToSolar(year, month, day, isLeapMonth, tz)
       IN  back' = [called |-> TRUE, from |-> "picker", year |-> year, month |-> month,
                    day |-> day, isLeapMonth |-> isLeapMonth, threw |-> r.threw, date |-> r.date]
    /\ conv' = NoConv
    /\ UNCHANGED <<rruleVars, svcVars, uiVars>>

\* the caller is done with the converted dates
LunarReturn ==
    /\ conv.called \/ back.called
    /\ conv' = NoConv
    /\ back' = NoBack
    /\ UNCHANGED <<rruleVars, svcVars, uiVars>>

RRuleIdle ==
    /\ now = 0
    /\ call = NoCall
    /\ occ = NoOcc

InitLunar ==
    /\ tz \in TzSet
    /\ conv = NoConv
    /\ back = NoBack
    /\ RRuleIdle
    /\ ServiceInit
    /\ UiIdle

NextLunar ==
    \/ LunarIdle /\ \E date \in LunarDates(tz) : SolarToLunarCall(date)
    \/ ConvertBack
    \/ LunarReturn
    \/ LunarIdle /\ \E year \in LunarYearsSet, month \in 1..12, day \in 1..30, isLeapMonth \in BOOLEAN :
           LunarToSolarCall(year, month, day, isLeapMonth)

SpecLunar == InitLunar /\ [][NextLunar]_vars

\* the lunar month (table row) a Gregorian instant falls in
LunarRowOf(date) ==
    CHOOSE k \in DOMAIN LunarMonthTable :
        /\ LunarStart[k] <= LocalDay(date, tz)
        /\ LocalDay(date, tz) < LunarStart[k] + LunarMonthTable[k][3]

\* C9: for every Gregorian date d of the table, leap-month dates included,
\* lunarToSolar applied to the fields of solarToLunar(d) returns (without
\* throwing) a date on the same calendar day as d.
C9_LunarRoundTrip ==
    (back.called /\ back.from = "solarToLunar")
        => (~back.threw /\ LocalDay(back.date, tz) = LocalDay(conv.date, tz))

\* C10: every LunarDate returned by solarToLunar has month in 1..12 and day
\* in 1..30; isLeapMonth is true exactly for dates of a leap month, and the
\* month is then the number of the regular month the leap month repeats.
C10_LunarDateShape ==
    conv.called =>
        LET row == LunarMonthTable[LunarRowOf(conv.date)]
        IN  /\ conv.out.month \in 1..12
            /\ conv.out.day \in 1..30
            /\ conv.out.isLeapMonth = (row[2] < 0)
            /\ conv.out.month = (IF row[2] < 0 THEN -row[2] ELSE row[2])

----------------------------------------------------------------------------
(* Festival and month-length queries as a state machine: one query at a    *)
(* time, ask records the last one.                                          *)

QueryIdle ==
    /\ conv = NoConv /\ back = NoBack
    /\ cache = <<>> /\ computed = 0 /\ ret = <<>> /\ requested = {}
    /\ thr = [t \in 1..2 |-> NoThread]

\* what the library reads of 2020-10-01: lunar 2020-08-15, no solar term
ReadingNationalDay2020 ==
    [year |-> 2020, month |-> 8, day |-> 15, jieQi |-> "", solarMonth |-> 10, solarDay |-> 1]

\* what getFestivals reads of the dates it is called with: every day of the
\* lunar table, and 2020-10-01
Readings == {ReadingOfDay(day) : day \in FirstLunarDay..LastLunarDay} \cup {ReadingNationalDay2020}

\* getFestivals(date), for a date read as r
GetFestivalsCall(r) ==
    /\ ask.op = "none"
    /\ ask' = [NoAsk EXCEPT !.op = "getFestivals", !.reading = r, !.res = FestivalsOf(r)]
    /\ UNCHANGED <<rruleVars, lunarVars, cacheVars, thr, uiVars>>

\* getLunarMonthDays(year, month, isLeapMonth)
GetLunarMonthDaysCall(year, month, isLeapMonth) ==
    /\ ask.op = "none"
    /\ ask' = [NoAsk EXCEPT !.op = "getLunarMonthDays", !.year = year, !.month = month,
                            !.isLeapMonth = isLeapMonth,
                            !.res = <<getLunarMonthDays(year, month, isLeapMonth)>>]
    /\ UNCHANGED <<rruleVars, lunarVars, cacheVars, thr, uiVars>>

\* getLunarDayList(year, month, isLeapMonth)
GetLunarDayListCall(year, month, isLeapMonth) ==
    /\ ask.op = "none"
    /\ ask' = [NoAsk EXCEPT !.op = "getLunarDayList", !.year = year, !.month = month,
                            !.isLeapMonth = isLeapMonth,
                            !.res = getLunarDayList(year, month, isLeapMonth)]
    /\ UNCHANGED <<rruleVars, lunarVars, cacheVars, thr, uiVars>>

\* the caller is done with the answer
QueryReturn ==
    /\ ask.op # "none"
    /\ ask' = NoAsk
    /\ UNCHANGED <<rruleVars, lunarVars, cacheVars, thr, uiVars>>

\* the month numbers a picker or caller may pass, 0 and 13 included
QueryMonths == 0..13

InitQuery ==
    /\ tz \in TzSet
    /\ RRuleIdle
    /\ QueryIdle
    /\ ask = NoAsk
    /\ UiIdle

NextQuery ==
    \/ ask.op = "none" /\ \E r \in Readings : GetFestivalsCall(r)
    \/ ask.op = "none" /\ \E year \in LunarYearsSet, month \in QueryMonths, isLeapMonth \in BOOLEAN :
           GetLunarMonthDaysCall(year, month, isLeapMonth)
    \/ ask.op = "none" /\ \E year \in LunarYearsSet, month \in QueryMonths, isLeapMonth \in BOOLEAN :
           GetLunarDayListCall(year, month, isLeapMonth)
    \/ QueryReturn

SpecQuery == InitQuery /\ [][NextQuery]_vars

\* the festival names of the held answer
AskNames == {ask.res[i].name : i \in DOMAIN ask.res}

\* the date read is the last day of the regular twelfth month of its lunar year
LastDayOfTwelfth(r) ==
    /\ r.month = 12
    /\ LunarMonthIndex(r.year, 12) # 0
    /\ r.day = LunarMonthTable[LunarMonthIndex(r.year, 12)][3]

\* C11: getFestivals tags a date "ChuXi" exactly when the date is the last
\* day of the regular lunar month 12, whether that month has 29 or 30 days;
\* day 29 of a 30-day month 12 is not tagged.
C11_ChuXiLastDay ==
    (ask.op = "getFestivals" /\ ask.reading.year \in LunarYearsSet)
        => ("ChuXi" \in AskNames <=> LastDayOfTwelfth(ask.reading))

\* the rank of a festival type in the order traditional, solar term, modern
TypeRank(type) == CASE type = "traditional" -> 1 [] type = "solar_term" -> 2 [] OTHER -> 3

\* C16: in every list getFestivals returns the traditional festivals come
\* first, then the solar-term festival, then the modern holidays, and a
\* date carries the festival of every category it matches (a fixed-day
\* traditional festival of its regular lunar month and day, QingMing or
\* DongZhi, a modern holiday of its Gregorian month and day).
C16_FestivalOrder ==
    ask.op = "getFestivals" =>
        /\ \A i \in 1..(Len(ask.res) - 1) : TypeRank(ask.res[i].type) <= TypeRank(ask.res[i + 1].type)
        /\ \A i \in 1..(Len(TRADITIONAL_FESTIVALS) - 1) :
              (/\ ask.reading.month = TRADITIONAL_FESTIVALS[i].month
               /\ ask.reading.day = TRADITIONAL_FESTIVALS[i].day)
                  => \E j \in DOMAIN ask.res : ask.res[j] = Festival(TRADITIONAL_FESTIVALS[i].name, "traditional", TRUE)
        /\ ask.reading.jieQi \in {"QingMing", "DongZhi"}
              => \E j \in DOMAIN ask.res : ask.res[j] = Festival(ask.reading.jieQi, "solar_term", FALSE)
        /\ \A i \in DOMAIN ModernFestivals :
              (/\ ask.reading.solarMonth = ModernFestivals[i].month
               /\ ask.reading.solarDay = ModernFestivals[i].day)
                  => \E j \in DOMAIN ask.res : ask.res[j] = Festival(ModernFestivals[i].name, "modern", FALSE)

\* a date that is both a traditional festival and a modern holiday was asked
C16_Witness ==
    /\ ask.op = "getFestivals" /\ Len(ask.res) = 2
    /\ ask.res[1].type = "traditional" /\ ask.res[2].type = "modern"

\* C17: getLunarMonthDays returns 29 or 30, and 30 when the year has no
\* such month (a leap flag for a month that is not the leap month, a month
\* number outside 1..12).
C17_MonthDays ==
    ask.op = "getLunarMonthDays" =>
        /\ ask.res[1] \in {29, 30}
        /\ LunarMonthIndex(ask.year, IF ask.isLeapMonth THEN -ask.month ELSE ask.month) = 0
              => ask.res[1] = 30

\* a leap month was asked of a year that has no such leap month
C17_Witness ==
    /\ ask.op = "getLunarMonthDays" /\ ask.isLeapMonth /\ ask.year = 2024 /\ ask.month = 2
    /\ ask.res = <<30>>

\* C18: getLunarDayList returns the days 1..getLunarMonthDays(year, month,
\* isLeapMonth) in ascending order, for the leap flag it was given: the
\* length of the table month when the year has it.
C18_DayList ==
    ask.op = "getLunarDayList" =>
        LET i == LunarMonthIndex(ask.year, IF ask.isLeapMonth THEN -ask.month ELSE ask.month)
        IN  /\ Len(ask.res) = getLunarMonthDays(ask.year, ask.month, ask.isLeapMonth)
            /\ \A d \in DOMAIN ask.res : ask.res[d] = d
            /\ i # 0 => Len(ask.res) = LunarMonthTable[i][3]

\* the day list of leap month 2 of 2023 (29 days; the regular month 2 has 30)
C18_Witness ==
    /\ ask.op = "getLunarDayList" /\ ask.year = 2023 /\ ask.month = 2 /\ ask.isLeapMonth
    /\ Len(ask.res) = 29
    /\ getLunarMonthDays(2023, 2, FALSE) = 30

----------------------------------------------------------------------------
(* The date-info cache as a state machine: getFullDateInfo,                 *)
(* batchGetDateInfo and clearCache, each call run to completion.            *)

\* the date-times asked about: every time-of-day slot of 2025-01-28 and 2025-01-29
CacheDates ==
    {Instant(day, tod, 0) : day \in {ToOrdinal(2025, 1, 28), ToOrdinal(2025, 1, 29)}, tod \in 0..(TodSlots - 1)}

\* the record of one getFullDateInfo call
Called(date, r) == [date |-> date, info |-> r.info, computed |-> r.computed, hit |-> r.hit]

\* the last two of a sequence of calls
LastTwo(seq) == IF Len(seq) > 2 THEN SubSeq(seq, Len(seq) - 1, Len(seq)) ELSE seq

\* the service after a getFullDateInfo(date) that returned r
AfterGet(date, r) ==
    /\ r.computed <= MaxComputed
    /\ cache' = r.cache
    /\ computed' = r.computed
    /\ ret' = LastTwo(Append(ret, Called(date, r)))
    /\ requested' = requested \cup {getCacheKey(date, tz)}

\* getFullDateInfo(date)
GetFullDateInfoCall(date) ==
    /\ AfterGet(date, getFullDateInfo(cache, computed, date, tz))
    /\ UNCHANGED <<rruleVars, lunarVars, thr, ask, uiVars>>

\* batchGetDateInfo, the second getFullDateInfo of the loop
SecondGet(r1, date, zone) == getFullDateInfo(r1.cache, r1.computed, date, zone)

\* the service after a batchGetDateInfo([date1, date2]) whose calls returned r1 and r2
AfterBatch(date1, r1, date2, r2) ==
    /\ r2.computed <= MaxComputed
    /\ cache' = r2.cache
    /\ computed' = r2.computed
    /\ ret' = LastTwo(ret \o <<Called(date1, r1), Called(date2, r2)>>)
    /\ requested' = requested \cup {getCacheKey(date1, tz), getCacheKey(date2, tz)}

BatchOf(date1, r1, date2) == AfterBatch(date1, r1, date2, SecondGet(r1, date2, tz))

\* batchGetDateInfo([date1, date2])
BatchGetDateInfoCall(date1, date2) ==
    /\ BatchOf(date1, getFullDateInfo(cache, computed, date1, tz), date2)
    /\ UNCHANGED <<rruleVars, lunarVars, thr, ask, uiVars>>

\* clearCache()
ClearCacheCall ==
    /\ cache # <<>>
    /\ cache' = <<>>
    /\ ret' = <<>>
    /\ requested' = {}
    /\ UNCHANGED <<computed, rruleVars, lunarVars, thr, ask, uiVars>>

InitCache ==
    /\ tz \in TzSet
    /\ RRuleIdle
    /\ conv = NoConv /\ back = NoBack
    /\ ServiceInit
    /\ UiIdle

NextCache ==
    \/ \E date \in CacheDates : GetFullDateInfoCall(date)
    \/ \E date1 \in CacheDates, date2 \in CacheDates : BatchGetDateInfoCall(date1, date2)
    \/ ClearCacheCall

SpecCache == InitCache /\ [][NextCache]_vars

\* C12: two consecutive getFullDateInfo(d) calls return value-equal results
\* and the second makes no computation: the computation count after it is
\* the count after the first.
C12_CacheIdempotent ==
    (Len(ret) = 2 /\ ret[1].date = ret[2].date)
        => /\ ret[2].info = ret[1].info
           /\ ret[2].computed = ret[1].computed

\* the first of two consecutive calls for the same date-time was a miss
C12_Witness ==
    /\ Len(ret) = 2 /\ ret[1].date = ret[2].date
    /\ ~ret[1].hit /\ ret[2].hit

\* the info describes the local calendar day of the date-time
Describes(info, date) ==
    /\ getCacheKey(info.solar, tz) = getCacheKey(date, tz)
    /\ info.lunar = solarToLunar(date, tz)
    /\ info.solarTerm.name = getSolarTerm(date, tz).name
    /\ info.festivals = getFestivals(date, tz)

\* C13: the cache holds exactly one entry per local calendar day requested
\* since it was cleared, the entry of a key describes the day of the key,
\* and the info returned for a date-time is the entry of its own day and
\* describes that day.
C13_KeyIsCalendarDay ==
    /\ DOMAIN cache = requested
    /\ \A k \in DOMAIN cache : getCacheKey(cache[k].solar, tz) = k
    /\ \A i \in DOMAIN ret :
          /\ ret[i].info = cache[getCacheKey(ret[i].date, tz)]
          /\ Describes(ret[i].info, ret[i].date)

\* two different date-times of one local day were asked, the second one hit
\* the entry of the first, and the cache holds a second day as well
C13_Witness ==
    /\ Len(ret) = 2 /\ ret[1].date # ret[2].date
    /\ getCacheKey(ret[1].date, tz) = getCacheKey(ret[2].date, tz)
    /\ ret[2].hit
    /\ Cardinality(DOMAIN cache) = 2

\* C14: an entry stays in the cache with the value it was created with
\* until clearCache empties the cache; a request on the emptied cache
\* computes and stores again.
C14_EntriesStable ==
    [][/\ (cache' # <<>>) => \A k \in DOMAIN cache : k \in DOMAIN cache' /\ cache'[k] = cache[k]
       /\ (cache = <<>> /\ cache' # <<>>) => computed' > computed]_vars

\* the cache was cleared after entries were computed, and filled again
C14_Witness ==
    /\ computed > Cardinality(DOMAIN cache)
    /\ Cardinality(DOMAIN cache) = 2

----------------------------------------------------------------------------
(* getFullDateInfo statement by statement, for two callers whose calls are  *)
(* interleaved.  The service itself is synchronous: the interleaving is     *)
(* the one a multi-threaded host of the same statements would allow.        *)

Callers == 1..2

\* a caller at statement pc of getFullDateInfo(date)
At(pc, date, info, miss) == [pc |-> pc, date |-> date, info |-> info, miss |-> miss]

\* getFullDateInfo(date) is entered by caller t
RaceEnter(t, date) ==
    /\ thr[t].pc = "idle"
    /\ thr' = [thr EXCEPT ![t] = At("check", date, <<>>, FALSE)]
    /\ UNCHANGED <<rruleVars, lunarVars, cacheVars, ask, uiVars>>

\* if (this.cache.has(key)) return this.cache.get(key)
RaceCheck(t) ==
    /\ thr[t].pc = "check"
    /\ thr' = [thr EXCEPT ![t] =
                 IF getCacheKey(thr[t].date, tz) \in DOMAIN cache
                 THEN At("done", thr[t].date, cache[getCacheKey(thr[t].date, tz)], FALSE)
                 ELSE At("compute", thr[t].date, <<>>, TRUE)]
    /\ UNCHANGED <<rruleVars, lunarVars, cacheVars, ask, uiVars>>

\* const info = { solar, lunar, solarTerm, festivals }
RaceCompute(t) ==
    /\ thr[t].pc = "compute"
    /\ computed < MaxComputed
    /\ computed' = computed + 1
    /\ thr' = [thr EXCEPT ![t] = At("store", thr[t].date, ComputeInfo(thr[t].date, tz), TRUE)]
    /\ UNCHANGED <<rruleVars, lunarVars, cache, ret, requested, ask, uiVars>>

\* this.cache.set(key, info); return info
RaceStore(t) ==
    /\ thr[t].pc = "store"
    /\ cache' = Put(cache, getCacheKey(thr[t].date, tz), thr[t].info)
    /\ thr' = [thr EXCEPT ![t] = At("done", thr[t].date, thr[t].info, TRUE)]
    /\ UNCHANGED <<rruleVars, lunarVars, computed, ret, requested, ask, uiVars>>

\* both callers have their results and call again
RaceReturn ==
    /\ \A t \in Callers : thr[t].pc = "done"
    /\ thr' = [t \in Callers |-> NoThread]
    /\ UNCHANGED <<rruleVars, lunarVars, cacheVars, ask, uiVars>>

\* clearCache() between calls
RaceClear ==
    /\ \A t \in Callers : thr[t].pc = "idle"
    /\ cache # <<>>
    /\ cache' = <<>>
    /\ UNCHANGED <<rruleVars, lunarVars, computed, ret, requested, thr, ask, uiVars>>

NextRace ==
    \/ \E t \in Callers, date \in CacheDates : RaceEnter(t, date)
    \/ \E t \in Callers : RaceCheck(t)
    \/ \E t \in Callers : RaceCompute(t)
    \/ \E t \in Callers : RaceStore(t)
    \/ RaceReturn
    \/ RaceClear

SpecRace == InitCache /\ [][NextRace]_vars

\* both callers asked about one calendar day, both missed, computed and stored
BothRaced ==
    /\ \A t \in Callers : thr[t].pc = "done" /\ thr[t].miss
    /\ getCacheKey(thr[1].date, tz) = getCacheKey(thr[2].date, tz)

\* the entry left and both results are the value v
AllAre(v) ==
    /\ cache[getCacheKey(thr[1].date, tz)] = v
    /\ \A t \in Callers : thr[t].info = v

SameDayInfo(a, b) ==
    /\ a.lunar = b.lunar
    /\ a.solarTerm.set = b.solarTerm.set
    /\ a.solarTerm.name = b.solarTerm.name
    /\ a.solarTerm.jieOrQi = b.solarTerm.jieOrQi
    /\ a.festivals = b.festivals
    /\ getCacheKey(a.solar, tz) = getCacheKey(b.solar, tz)

----------------------------------------------------------------------------
(* The weekly Monday/Wednesday/Friday rule: generated by the form, then     *)
(* expanded from a Monday anchor.                                            *)

\* { frequency: 'WEEKLY', interval: 1, byWeekday: [0, 2, 4], count: 10 }
WeeklyMonWedFri == RepeatRule("WEEKLY", 1, 10, -1, <<0, 2, 4>>, <<>>)

\* FREQ=WEEKLY;BYDAY=MO,WE,FR;COUNT=10
WeeklyMonWedFriText ==
    Text(FALSE, <<Part("FREQ", <<"WEEKLY">>), Part("BYDAY", <<"MO", "WE", "FR">>), Part("COUNT", <<10>>)>>)

\* anchors on a local Monday: every time of day of three Mondays
MondayAnchors(zone) ==
    {Instant(day, tod, ms) - zone * MsSlots :
        day \in {ToOrdinal(2024, 1, 29), ToOrdinal(2024, 2, 5), ToOrdinal(2024, 3, 4)},
        tod \in 0..(TodSlots - 1), ms \in 0..(MsSlots - 1)}

\* generateOccurrences(startDate, text) with the text generateRRule returned
ExpandGenerated(startDate) ==
    /\ call.op = "generateRRule" /\ ~call.threw
    /\ call' = Returned([call EXCEPT !.op = "expandGenerated", !.start = startDate,
                                      !.cap = DefaultMaxOccurrences, !.clock = now],
                        generateOccurrences(startDate, call.text, DefaultMaxOccurrences, now))
    /\ UNCHANGED <<now, tz, occ, conv, back, svcVars, uiVars>>

NextWeekly ==
    \/ Tick
    \/ RRuleIsIdle /\ GenerateRRuleCall(WeeklyMonWedFri)
    \/ \E startDate \in MondayAnchors(tz) : ExpandGenerated(startDate)
    \/ RRuleReturn

SpecWeekly == Init /\ [][NextWeekly]_vars

\* the generated text reads as FREQ=WEEKLY;BYDAY=MO,WE,FR;COUNT=10 does
WeeklyTextEquivalent ==
    call.op = "expandGenerated"
        => FromString(call.text, call.clock) = FromString(WeeklyMonWedFriText, call.clock)

\* the occurrences returned are 10 and start on the days first, second, third
StartsOnDays(res, first, second, third) ==
    /\ Len(res) = 10
    /\ LocalDay(res[1], tz) = first
    /\ LocalDay(res[2], tz) = second
    /\ LocalDay(res[3], tz) = third

\* C19: the text generated for the weekly Monday/Wednesday/Friday rule with
\* count 10 is equivalent to FREQ=WEEKLY;BYDAY=MO,WE,FR;COUNT=10, and
\* expanding it from a Monday anchor returns exactly 10 dates whose first
\* three are the anchor Monday and the Wednesday and Friday of its week.
C19_WeeklyScenario ==
    call.op = "expandGenerated"
        => /\ FromString(call.text, call.clock) = FromString(WeeklyMonWedFriText, call.clock)
           /\ StartsOnDays(call.res, LocalDay(call.start, tz), LocalDay(call.start, tz) + 2,
                           LocalDay(call.start, tz) + 4)

----------------------------------------------------------------------------
(* getNextOccurrence against the rule of the text anchored at startDate *)

\* the rule of the text with DTSTART startDate, asked for its first
\* occurrence at or after the clock reading
NextAnchored(startDate, text, clock) == NextOf(FromString(text, startDate), clock)

\* a date getNextOccurrence returns is neither before the clock reading nor
\* before startDate
NextNotBeforeStart ==
    (call.op = "getNextOccurrence" /\ call.res # <<>>)
        => call.res[1] >= call.start /\ call.res[1] >= call.clock

\* C20: getNextOccurrence(start, rule) returns the earliest occurrence of
\* the rule anchored at start that is at or after the current time, null
\* when the rule ends by COUNT or UNTIL before such an occurrence, and
\* never a date earlier than start.
C20_NextOccurrence ==
    call.op = "getNextOccurrence"
        => /\ call.res = NextAnchored(call.start, call.text, call.clock).res
           /\ NextNotBeforeStart

----------------------------------------------------------------------------
(* The expansion against the clock, the anchor and the cap *)

\* C21: generateOccurrences is a function of the anchor, the rule text and
\* the cap alone: a call made at any other clock reading returns the list
\* the held call returned.
C21_ClockIndependent ==
    Expanded => \A clock \in Clocks :
                    generateOccurrences(call.start, call.text, call.cap, clock).res = call.res

\* a generated text without BYDAY and BYMONTHDAY
Unconstrained(text) ==
    /\ text \in GeneratedTexts
    /\ ~HasPart(text, "BYDAY") /\ ~HasPart(text, "BYMONTHDAY")

\* date-time b is n units of the frequency after date-time a, at the same time of day
IsStep(freq, n, a, b) ==
    /\ a % (TodSlots * MsSlots) = b % (TodSlots * MsSlots)
    /\ CASE freq = "DAILY" -> UtcDay(b) = UtcDay(a) + n
         [] freq = "WEEKLY" -> UtcDay(b) = UtcDay(a) + 7 * n
         [] freq = "MONTHLY" ->
                /\ Ymd[UtcDay(b)].d = Ymd[UtcDay(a)].d
                /\ (Ymd[UtcDay(b)].y * 12 + Ymd[UtcDay(b)].m) - (Ymd[UtcDay(a)].y * 12 + Ymd[UtcDay(a)].m) = n
         [] OTHER ->
                /\ Ymd[UtcDay(b)].d = Ymd[UtcDay(a)].d /\ Ymd[UtcDay(b)].m = Ymd[UtcDay(a)].m
                /\ Ymd[UtcDay(b)].y - Ymd[UtcDay(a)].y = n

\* C24: for a rule without byWeekday and byMonthDay the first date
\* generateOccurrences returns is the anchor itself, and every following
\* date is interval units of the frequency after the one before it.
C24_StartsAtAnchor ==
    (Expanded /\ Unconstrained(call.text) /\ call.res # <<>>)
        => /\ call.res[1] = call.start
           /\ \A i \in 1..(Len(call.res) - 1) :
                 IsStep(PartOf(call.text, "FREQ")[1], PartOf(call.text, "INTERVAL")[1],
                        call.res[i], call.res[i + 1])

\* the first n elements of a list, the whole list when it is shorter
Prefix(seq, n) == SubSeq(seq, 1, Min(n, Len(seq)))

\* the expansion with a smaller cap at the clock reading of the held call is
\* a prefix of the held result
PrefixAtOneClock ==
    Expanded => \A n \in 0..MaxCap :
                    n <= call.cap =>
                        generateOccurrences(call.start, call.text, n, call.clock).res = Prefix(call.res, n)

\* C25: for N <= M, generateOccurrences(start, rule, N) is the first N
\* elements of generateOccurrences(start, rule, M), or all of them when there
\* are fewer, whenever the two calls are made, and neither call throws.
C25_CapIsPrefix ==
    Expanded => /\ ~call.threw
                /\ \A n \in 0..MaxCap, clock \in Clocks :
                      n <= call.cap =>
                          /\ ~generateOccurrences(call.start, call.text, n, clock).threw
                          /\ generateOccurrences(call.start, call.text, n, clock).res = Prefix(call.res, n)

\* C26: a rule parseRRule returns has a frequency of DAILY, WEEKLY, MONTHLY,
\* YEARLY and an interval >= 1, and a text with any other FREQ value gives
\* null.
C26_ParsedFrequency ==
    call.op = "parseRRule"
        => /\ ~call.isNull => /\ call.rule.frequency \in {"DAILY", "WEEKLY", "MONTHLY", "YEARLY"}
                              /\ call.rule.interval >= 1
           /\ call.text \in SubDailyTexts => call.isNull

----------------------------------------------------------------------------
(* generateRRule on specs whose interval is below 1 *)

\* rule specs with interval 0 and -1
BadIntervalSpecs ==
    {RepeatRule(f, i, t.count, t.until, <<>>, <<>>) :
        f \in {"DAILY", "WEEKLY", "MONTHLY", "YEARLY"}, i \in {0, -1}, t \in Terminations}

NextBadInterval ==
    \/ Tick
    \/ RRuleIsIdle /\ \E rule \in BadIntervalSpecs : GenerateRRuleCall(rule)
    \/ RRuleReturn

SpecBadInterval == Init /\ [][NextBadInterval]_vars

\* C22: generateRRule rejects a spec whose interval is below 1: it throws and
\* returns no rule text.
C22_IntervalValidated ==
    (call.op = "generateRRule" /\ call.rule.interval < 1)
        => call.threw /\ call.text = NoText

----------------------------------------------------------------------------
(* getNextOccurrence followed by isDateInRRule on the date it returned *)

\* clock readings more than a year after the anchors
LateClocks ==
    {Instant(ToOrdinal(2025, 3, 1), 1, 0),
     Instant(ToOrdinal(2025, 6, 10), 0, 1)}

\* the texts asked about: interval 1, no BYMONTHDAY, unbounded or ending
\* after MaxCount occurrences
AgreeTexts ==
    {generateRRule(r).text : r \in {q \in RuleSpecs : /\ q.interval = 1
                                                      /\ q.until = -1
                                                      /\ q.count \in {0, MaxCount}
                                                      /\ q.byMonthDay = <<>>}}

\* isDateInRRule(next, startDate, text) for the date getNextOccurrence returned
CheckNext ==
    /\ call.op = "getNextOccurrence" /\ call.res # <<>>
    /\ call' = Returned([call EXCEPT !.op = "checkNext", !.date = call.res[1]],
                        isDateInRRule(call.res[1], call.start, call.text, now, tz))
    /\ UNCHANGED <<now, tz, occ, conv, back, svcVars, uiVars>>

InitAgree ==
    /\ now \in Clocks \cup LateClocks
    /\ tz \in TzSet
    /\ call = NoCall
    /\ occ = NoOcc
    /\ LunarIdleInit
    /\ ServiceInit
    /\ UiIdle

NextAgree ==
    \/ Tick
    \/ RRuleIsIdle /\ \E startDate \in Starts, text \in AgreeTexts : GetNextOccurrenceCall(startDate, text)
    \/ CheckNext
    \/ RRuleReturn

SpecAgree == InitAgree /\ [][NextAgree]_vars

\* C28: whenever getNextOccurrence(start, rule) returns a date d,
\* isDateInRRule(d, start, rule) is true, also for an unbounded rule whose
\* anchor lies more than 365 occurrences before the current time.
C28_NextIsContained ==
    call.op = "checkNext" => call.found

\* the queries agree when both are made at one clock reading less than 365
\* occurrences after the anchor
AgreeWithinCap ==
    (call.op = "checkNext" /\ call.clock = now /\ now \in Clocks) => call.found

----------------------------------------------------------------------------
(* lunarToSolar on a day or a month the lunar year does not have *)

\* the picked month is absent from the year, or the picked day is past its end
NotInTable(b) ==
    \/ LunarMonthIndex(b.year, IF b.isLeapMonth THEN -b.month ELSE b.month) = 0
    \/ b.day > getLunarMonthDays(b.year, b.month, b.isLeapMonth)

\* the date returned is the last day of the month asked for
ClampedToLastDay(b) ==
    /\ ~b.threw
    /\ LunarMonthIndex(b.year, IF b.isLeapMonth THEN -b.month ELSE b.month) # 0
    /\ LocalDay(b.date, tz) = LunarToSolarDay(b.year, IF b.isLeapMonth THEN -b.month ELSE b.month,
                                              getLunarMonthDays(b.year, b.month, b.isLeapMonth)).day

\* C23: lunarToSolar with a day past the end of the month, or with a month
\* the year does not have, throws or returns the last day of that month,
\* and a date it returns always lies in the lunar month asked for.
C23_NoForeignMonth ==
    (back.called /\ back.from = "picker")
        => /\ NotInTable(back) => (back.threw \/ ClampedToLastDay(back))
           /\ ~back.threw => LunarRowOf(back.date) =
                                 LunarMonthIndex(back.year, IF back.isLeapMonth THEN -back.month ELSE back.month)

\* day 30 of a 29-day month was asked for, and the call threw
C23_Witness ==
    /\ back.called /\ back.from = "picker" /\ back.threw
    /\ back.day = 30
    /\ getLunarMonthDays(back.year, back.month, back.isLeapMonth) = 29
    /\ LunarMonthIndex(back.year, IF back.isLeapMonth THEN -back.month ELSE back.month) # 0

----------------------------------------------------------------------------
(* LunarDatePicker *)

\* the items of a list
Ids(events) == {events[i] : i \in DOMAIN events}

\* LunarService.getLeapMonthOfYear: the first m of 1..12 with LunarMonth.fromYm(year, -m)
getLeapMonthOfYear(year) ==
    LET found == {m \in 1..12 : LunarMonthIndex(year, -m) # 0}
    IN  IF found = {} THEN 0 ELSE CHOOSE m \in found : \A k \in found : m <= k

\* LunarService.getLeapMonth: Lunar.fromYmd(year, 1, 1).getYear() is year
getLeapMonth(year) == getLeapMonthOfYear(year)

\* the entries pushed for one month: the month, then its leap month if it is the leap month
MonthEntries(month, leapMonth) ==
    IF leapMonth = month
    THEN <<[value |-> month, isLeap |-> FALSE], [value |-> month, isLeap |-> TRUE]>>
    ELSE <<[value |-> month, isLeap |-> FALSE]>>

RECURSIVE MonthListFrom(_, _)
MonthListFrom(month, leapMonth) ==
    IF month > 12 THEN <<>>
    ELSE MonthEntries(month, leapMonth) \o MonthListFrom(month + 1, leapMonth)

\* a month list whose leap entry is never inserted
MonthListWithoutLeap(year) == MonthListFrom(1, 0)

\* LunarService.getLunarMonthList
getLunarMonthList(year) == MonthListFrom(1, getLeapMonth(year))

\* LunarService.getLunarYearList over the years of the table
getLunarYearList == LunarYearsSet

\* year, month, day and leap flag name a day of the lunar calendar
IsLunarDate(year, month, day, isLeapMonth) ==
    /\ month \in 1..12
    /\ isLeapMonth => getLeapMonth(year) = month
    /\ LunarMonthIndex(year, IF isLeapMonth THEN -month ELSE month) # 0
    /\ day >= 1
    /\ day <= getLunarMonthDays(year, month, isLeapMonth)

\* the text under the buttons: lunarToSolar(selectedYear, selectedMonth, selectedDay, isLeapMonth)
Rendered(p) ==
    LET r == lunarToSolar(p.year, p.month, p.day, p.isLeapMonth, tz)
    IN  [called |-> TRUE, from |-> "render", year |-> p.year, month |-> p.month,
         day |-> p.day, isLeapMonth |-> p.isLeapMonth, threw |-> r.threw, date |-> r.date]

\* the state after useState(value?.year ?? currentYear) .. useState(value?.isLeapMonth ?? false)
Mounted(value) ==
    [mounted |-> TRUE,
     validStart |-> IsLunarDate(value.year, value.month, value.day, value.isLeapMonth),
     last |-> "mount",
     year |-> value.year, month |-> value.month, day |-> value.day, isLeapMonth |-> value.isLeapMonth]

\* EventForm hands the picker solarToLunar(startTime), startTime on any day of the table
FormValues == {solarToLunar(Instant(day, 0, 0) - tz * MsSlots, tz) : day \in FirstLunarDay..LastLunarDay}

\* the picker without a value: the current year, first month, first day
DefaultValue == [year |-> Ymd[LocalDay(now, tz)].y, month |-> 1, day |-> 1, isLeapMonth |-> FALSE]

\* the picker is shown
PickerMount(value) ==
    /\ ~picker.mounted
    /\ picker' = Mounted(value)
    /\ back' = Rendered(picker')
    /\ UNCHANGED <<rruleVars, conv, svcVars, store, pre>>

\* the form is closed
PickerUnmount ==
    /\ picker.mounted
    /\ picker' = NoPicker
    /\ back' = NoBack
    /\ UNCHANGED <<rruleVars, conv, svcVars, store, pre>>

\* handleYearSelect keeping the leap flag whatever the new year is
YearSelectKeepingLeap(year) ==
    /\ picker.mounted
    /\ LET newDayList == getLunarDayList(year, picker.month, picker.isLeapMonth)
           newDay == Min(picker.day, Len(newDayList))
       IN  picker' = [picker EXCEPT !.year = year, !.day = newDay, !.last = "handleYearSelect"]
    /\ back' = Rendered(picker')
    /\ UNCHANGED <<rruleVars, conv, svcVars, store, pre>>

\* handleYearSelect
handleYearSelect(year) ==
    /\ picker.mounted
    /\ LET newMonthList == getLunarMonthList(year)
           hasLeapMonth == \E i \in DOMAIN newMonthList :
                               newMonthList[i].isLeap /\ newMonthList[i].value = picker.month
           newIsLeap == IF hasLeapMonth THEN picker.isLeapMonth ELSE FALSE
           newDayList == getLunarDayList(year, picker.month, newIsLeap)
           newDay == Min(picker.day, Len(newDayList))
       IN  picker' = [picker EXCEPT !.year = year, !.isLeapMonth = newIsLeap, !.day = newDay,
                                    !.last = "handleYearSelect"]
    /\ back' = Rendered(picker')
    /\ UNCHANGED <<rruleVars, conv, svcVars, store, pre>>

\* handleMonthSelect
handleMonthSelect(month, leap) ==
    /\ picker.mounted
    /\ LET newDayList == getLunarDayList(picker.year, month, leap)
           newDay == Min(picker.day, Len(newDayList))
       IN  picker' = [picker EXCEPT !.month = month, !.isLeapMonth = leap, !.day = newDay,
                                    !.last = "handleMonthSelect"]
    /\ back' = Rendered(picker')
    /\ UNCHANGED <<rruleVars, conv, svcVars, store, pre>>

\* handleDaySelect
handleDaySelect(day) ==
    /\ picker.mounted
    /\ picker' = [picker EXCEPT !.day = day, !.last = "handleDaySelect"]
    /\ back' = Rendered(picker')
    /\ UNCHANGED <<rruleVars, conv, svcVars, store, pre>>

\* the lists the three modals offer are those of the selection on screen
NextPicker ==
    \/ ~picker.mounted /\ \E value \in FormValues \cup {DefaultValue} : PickerMount(value)
    \/ PickerUnmount
    \/ picker.mounted /\ \E year \in getLunarYearList : handleYearSelect(year)
    \/ picker.mounted /\ \E item \in Ids(getLunarMonthList(picker.year)) :
           handleMonthSelect(item.value, item.isLeap)
    \/ picker.mounted /\ \E day \in Ids(getLunarDayList(picker.year, picker.month, picker.isLeapMonth)) :
           handleDaySelect(day)

\* the form is opened on 2024-03-05; the clock only gives the default year
InitPicker ==
    /\ Init
    /\ now = Instant(ToOrdinal(2024, 3, 5), 1, 0)

SpecPicker == InitPicker /\ [][NextPicker]_vars

\* C27: a picker that started from a valid lunar date holds a valid lunar
\* date after every selection (the leap flag only on the year's leap month,
\* the day within the month), and the lunarToSolar of its render never throws.
C27_PickerValid ==
    (picker.mounted /\ picker.validStart)
        => /\ IsLunarDate(picker.year, picker.month, picker.day, picker.isLeapMonth)
           /\ back.from = "render" /\ ~back.threw

\* a year without the selected leap month was chosen and the leap flag was dropped
C27_Witness ==
    /\ picker.mounted /\ picker.validStart
    /\ picker.last = "handleYearSelect"
    /\ picker.year = 2024 /\ picker.month = getLeapMonth(2023) /\ ~picker.isLeapMonth
    /\ picker.day = 29
    /\ back.from = "render" /\ ~back.threw

\* every picker starts from a lunar date and renders its Gregorian date: this
\* fails for a start in a leap month, which solarToLunar hands over as a negative month
PickerStartedInvalid ==
    picker.mounted => (picker.validStart /\ ~back.threw)

----------------------------------------------------------------------------
(* useEventStore: loadEvents and deleteEvent in flight together *)

MaxEvents == 2

\* the ids dao.addEvent can give
EventIds == 1..MaxEvents

\* SELECT .. ORDER BY startTime ASC: the rows of the table, in order
RECURSIVE Rows(_)
Rows(rows) ==
    IF rows = {} THEN <<>>
    ELSE LET first == CHOOSE id \in rows : \A other \in rows : id <= other
         IN  <<first>> \o Rows(rows \ {first})

\* the forEach of loadEvents: an event already in the list is replaced in
\* place, any other is pushed
RECURSIVE Merge(_, _)
Merge(mergedEvents, newEvents) ==
    IF newEvents = <<>> THEN mergedEvents
    ELSE LET newEvent == Head(newEvents)
         IN  IF \E i \in DOMAIN mergedEvents : mergedEvents[i] = newEvent
             THEN Merge([i \in DOMAIN mergedEvents |->
                            IF mergedEvents[i] = newEvent THEN newEvent ELSE mergedEvents[i]],
                        Tail(newEvents))
             ELSE Merge(Append(mergedEvents, newEvent), Tail(newEvents))

\* state.events.filter(event => event.id !== id)
Without(events, id) == SelectSeq(events, LAMBDA e : e # id)

StoreOnly == UNCHANGED <<rruleVars, lunarVars, svcVars, picker, pre>>

\* addEvent up to the insert: dao.addEvent stores the row under a fresh id
AddEventInsert(id) ==
    /\ store.add.pc = "idle"
    /\ id \notin store.created
    /\ store' = [store EXCEPT !.rows = @ \cup {id}, !.created = @ \cup {id},
                               !.add = [pc |-> "inserted", id |-> id]]
    /\ StoreOnly

\* addEvent after the insert: set(state => ({ events: [...state.events, newEvent] }))
AddEventSet ==
    /\ store.add.pc = "inserted"
    /\ store' = [store EXCEPT !.events = Append(@, store.add.id), !.add = [pc |-> "idle", id |-> 0]]
    /\ StoreOnly

\* loadEvents up to the await: set({ isLoading: true }), dao.getEvents is called
LoadEventsStart ==
    /\ store.load.pc = "idle"
    /\ store' = [store EXCEPT !.isLoading = TRUE, !.load = [pc |-> "query", newEvents |-> <<>>]]
    /\ StoreOnly

\* the SELECT of dao.getEvents runs on the table
GetEventsRead ==
    /\ store.load.pc = "query"
    /\ store' = [store EXCEPT !.load = [pc |-> "result", newEvents |-> Rows(store.rows)]]
    /\ StoreOnly

\* dao.getEvents rejects: the catch of loadEvents
LoadEventsFail ==
    /\ store.load.pc = "query"
    /\ store' = [store EXCEPT !.isLoading = FALSE, !.load = [pc |-> "idle", newEvents |-> <<>>]]
    /\ StoreOnly

\* loadEvents after the await: the merge into state.events
LoadEventsMerge ==
    /\ store.load.pc = "result"
    /\ store' = [store EXCEPT !.events = Merge(@, store.load.newEvents), !.isLoading = FALSE,
                               !.load = [pc |-> "idle", newEvents |-> <<>>]]
    /\ StoreOnly

\* deleteEvent up to the first await: ReminderService.deleteEventReminders(id)
DeleteEventStart(id) ==
    /\ store.del.pc = "idle"
    /\ id \in Ids(store.events)
    /\ store' = [store EXCEPT !.del = [pc |-> "reminders", id |-> id]]
    /\ StoreOnly

\* the reminders are deleted, or the failure is logged: dao.deleteEvent is called
DeleteEventReminders ==
    /\ store.del.pc = "reminders"
    /\ store' = [store EXCEPT !.del.pc = "dao"]
    /\ StoreOnly

\* the DELETE of dao.deleteEvent runs on the table
DeleteEventRow ==
    /\ store.del.pc = "dao"
    /\ store' = [store EXCEPT !.rows = @ \ {store.del.id}, !.del.pc = "deleted"]
    /\ StoreOnly

\* dao.deleteEvent rejects: deleteEvent rethrows and sets nothing
DeleteEventFail ==
    /\ store.del.pc = "dao"
    /\ store' = [store EXCEPT !.del = [pc |-> "idle", id |-> 0]]
    /\ StoreOnly

\* deleteEvent after the await: the filter of state.events; the call has succeeded
DeleteEventSet ==
    /\ store.del.pc = "deleted"
    /\ store' = [store EXCEPT !.events = Without(@, store.del.id),
                               !.deleted = @ \cup {store.del.id},
                               !.del = [pc |-> "idle", id |-> 0]]
    /\ StoreOnly

NextStore ==
    \/ \E id \in EventIds : AddEventInsert(id)
    \/ AddEventSet
    \/ LoadEventsStart
    \/ GetEventsRead
    \/ LoadEventsFail
    \/ LoadEventsMerge
    \/ \E id \in EventIds : DeleteEventStart(id)
    \/ DeleteEventReminders
    \/ DeleteEventRow
    \/ DeleteEventFail
    \/ DeleteEventSet

SpecStore == Init /\ [][NextStore]_vars

----------------------------------------------------------------------------
(* useMonthPreload and the weekStart effect of MonthView *)

MaxSwipes == 2
MaxTimers == 2

WeekStarts == {"sunday", "monday"}

\* dateUtils.getFirstDayOfMonth: dayjs(..).day(), 0 for Sunday
getFirstDayOfMonth(year, month) == ToOrdinal(year, month, 1) % 7

\* calculateOffset of getMonthLazyLoadData
calculateOffset(y, m, weekStartSetting) ==
    IF weekStartSetting = "monday"
    THEN (getFirstDayOfMonth(y, m) + 6) % 7
    ELSE getFirstDayOfMonth(y, m)

\* one MonthData; daysInMonth is the number of dates getDaysInMonth lists
MonthDataOf(y, m, weekStartSetting) ==
    [year |-> y, month |-> m, daysInMonth |-> DaysInMonth(y, m),
     firstDayOfWeek |-> calculateOffset(y, m, weekStartSetting)]

PrevMonthOf(year, month) ==
    [year |-> IF month = 1 THEN year - 1 ELSE year, month |-> IF month = 1 THEN 12 ELSE month - 1]

NextMonthOf(year, month) ==
    [year |-> IF month = 12 THEN year + 1 ELSE year, month |-> IF month = 12 THEN 1 ELSE month + 1]

\* lazyLoadUtils.getMonthLazyLoadData
getMonthLazyLoadData(year, month, weekStartSetting) ==
    [prev |-> MonthDataOf(PrevMonthOf(year, month).year, PrevMonthOf(year, month).month, weekStartSetting),
     current |-> MonthDataOf(year, month, weekStartSetting),
     next |-> MonthDataOf(NextMonthOf(year, month).year, NextMonthOf(year, month).month, weekStartSetting)]

\* getCacheKey of useMonthPreload: `${year}-${month}`
getMonthCacheKey(year, month) == <<year, month>>

\* cacheRef.current.set(key, data)
CacheSet(entries, key, data) == [k \in DOMAIN entries \cup {key} |-> IF k = key THEN data ELSE entries[k]]

\* getLazyLoadData of a hook rendered with weekStart: the cache after the call
LazyCache(entries, year, month, weekStart) ==
    IF getMonthCacheKey(year, month) \in DOMAIN entries THEN entries
    ELSE CacheSet(entries, getMonthCacheKey(year, month), getMonthLazyLoadData(year, month, weekStart))

\* getLazyLoadData of a hook rendered with weekStart: the call and what it returned
LazyRead(entries, year, month, weekStart) ==
    [called |-> TRUE, year |-> year, month |-> month, weekStart |-> weekStart,
     data |-> LazyCache(entries, year, month, weekStart)[getMonthCacheKey(year, month)]]

\* the month offset months away, as cleanupCache counts it
OffsetMonth(currentYear, currentMonth, offset) ==
    LET m == currentMonth + offset
    IN  IF m < 1 THEN <<currentYear - 1, m + 12>>
        ELSE IF m > 12 THEN <<currentYear + 1, m - 12>>
        ELSE <<currentYear, m>>

\* cleanupCache: the entries of the month shown and of three months either side
cleanupCache(entries, currentYear, currentMonth) ==
    LET validRange == {OffsetMonth(currentYear, currentMonth, offset) : offset \in -3..3}
    IN  [k \in DOMAIN entries \cap validRange |-> entries[k]]

\* the effect on currentDateKey and weekStart: getLazyLoadData, setLazyLoadData, cleanupCache
ShowMonth(p, year, month) ==
    [p EXCEPT !.year = year, !.month = month,
              !.read = LazyRead(p.cache, year, month, p.weekStart),
              !.cache = cleanupCache(LazyCache(p.cache, year, month, p.weekStart), year, month)]

\* preloadMonth of a hook rendered with p.weekStart: nothing for a month
\* cached or being preloaded, else a requestAnimationFrame callback is queued
preloadMonth(p, year, month) ==
    IF getMonthCacheKey(year, month) \in DOMAIN p.cache \/ getMonthCacheKey(year, month) \in p.preloading
    THEN p
    ELSE [p EXCEPT !.preloading = @ \cup {getMonthCacheKey(year, month)},
                   !.timers = @ \cup {[kind |-> "frame", year |-> year, month |-> month,
                                        weekStart |-> p.weekStart]}]

PreloadOnly == UNCHANGED <<rruleVars, lunarVars, svcVars, picker, store>>

\* MonthView is mounted on the current month: the useState initializer and
\* the effects of the first render
MonthViewMount(weekStart) ==
    /\ ~pre.mounted
    /\ pre' = ShowMonth([NoPre EXCEPT !.mounted = TRUE, !.weekStart = weekStart,
                                       !.prevWeekStart = weekStart],
                         Ymd[LocalDay(now, tz)].y, Ymd[LocalDay(now, tz)].m)
    /\ PreloadOnly

\* the setting changes: MonthView renders with the new weekStart; its effects
\* clear the cache (clearAllCache) and show the month again
WeekStartChange(weekStart) ==
    /\ pre.mounted
    /\ weekStart # pre.weekStart
    /\ pre' = ShowMonth([pre EXCEPT !.weekStart = weekStart, !.prevWeekStart = weekStart,
                                     !.cache = <<>>, !.preloading = {}],
                         pre.year, pre.month)
    /\ PreloadOnly

\* onPanResponderGrant: preloadMonth of the months before and after the one shown
GestureGrant ==
    /\ pre.mounted
    /\ pre.animating = "none"
    /\ Cardinality(pre.timers) + 2 <= MaxTimers
    /\ pre' = preloadMonth(preloadMonth(pre, PrevMonthOf(pre.year, pre.month).year,
                                              PrevMonthOf(pre.year, pre.month).month),
                            NextMonthOf(pre.year, pre.month).year, NextMonthOf(pre.year, pre.month).month)
    /\ PreloadOnly

\* onPanResponderRelease past the threshold: preloadNextInDirection, and the animation starts
GestureRelease(direction) ==
    /\ pre.mounted
    /\ pre.animating = "none"
    /\ pre.swipes < MaxSwipes
    /\ Cardinality(pre.timers) + 1 <= MaxTimers
    /\ LET target == IF direction = "next" THEN NextMonthOf(pre.year, pre.month)
                                            ELSE PrevMonthOf(pre.year, pre.month)
           further == IF direction = "next" THEN NextMonthOf(target.year, target.month)
                                             ELSE PrevMonthOf(target.year, target.month)
       IN  pre' = [preloadMonth(pre, further.year, further.month)
                      EXCEPT !.animating = direction, !.swipes = @ + 1]
    /\ PreloadOnly

\* the animation ends: setCurrentDate of the neighbour month, and the effect shows it
AnimationEnd ==
    /\ pre.mounted
    /\ pre.animating # "none"
    /\ LET target == IF pre.animating = "next" THEN NextMonthOf(pre.year, pre.month)
                                                ELSE PrevMonthOf(pre.year, pre.month)
       IN  pre' = ShowMonth([pre EXCEPT !.animating = "none"], target.year, target.month)
    /\ PreloadOnly

\* the requestAnimationFrame callback of preloadMonth runs, with the weekStart
\* of the render that queued it; preloadAdjacentMonths queues its setTimeout
FrameCallback(t) ==
    /\ t \in pre.timers
    /\ t.kind = "frame"
    /\ pre' = [pre EXCEPT !.cache = LazyCache(@, t.year, t.month, t.weekStart),
                           !.preloading = @ \ {getMonthCacheKey(t.year, t.month)},
                           !.timers = (@ \ {t}) \cup {[t EXCEPT !.kind = "timeout"]}]
    /\ PreloadOnly

\* the setTimeout callback of preloadAdjacentMonths runs, with the weekStart
\* of the render that queued the preload
TimeoutCallback(t) ==
    /\ t \in pre.timers
    /\ t.kind = "timeout"
    /\ pre' = [pre EXCEPT !.cache = LazyCache(LazyCache(@, PrevMonthOf(t.year, t.month).year,
                                                            PrevMonthOf(t.year, t.month).month, t.weekStart),
                                                NextMonthOf(t.year, t.month).year,
                                                NextMonthOf(t.year, t.month).month, t.weekStart),
                           !.timers = @ \ {t}]
    /\ PreloadOnly

NextPreload ==
    \/ \E weekStart \in WeekStarts : MonthViewMount(weekStart)
    \/ \E weekStart \in WeekStarts : WeekStartChange(weekStart)
    \/ GestureGrant
    \/ \E direction \in {"prev", "next"} : GestureRelease(direction)
    \/ AnimationEnd
    \/ \E t \in pre.timers : FrameCallback(t)
    \/ \E t \in pre.timers : TimeoutCallback(t)

SpecPreload == Init /\ [][NextPreload]_vars

\* C30: what getLazyLoadData returns was computed with the weekStart of the
\* hook that is asked, also after the setting changed and clearAllCache ran
\* while preload callbacks queued before were still pending.
C30_ReadIsCurrent ==
    pre.read.called
        => pre.read.data = getMonthLazyLoadData(pre.read.year, pre.read.month, pre.read.weekStart)

\* every entry of the cache was computed with the weekStart now set
CacheIsCurrent ==
    \A k \in DOMAIN pre.cache : pre.cache[k] = getMonthLazyLoadData(k[1], k[2], pre.weekStart)

====
